---------------------------- MODULE Spec2Model ----------------------------
(***************************************************************************)
(* Model of the custom backtest engine (backtester.py): the Portfolio      *)
(* ledger (cash, positions, trade records, cost counters) and the          *)
(* BacktestEngine strategies that drive it.                                *)
(*                                                                         *)
(* Python floats are modelled as exact rationals [n |-> num, d |-> den]    *)
(* in lowest terms with d > 0, so every amount is computed by the same     *)
(* formula as the code but without binary rounding error.                  *)
(***************************************************************************)
EXTENDS Integers, Sequences, FiniteSets, TLC

(***************************************************************************)
(* Exact rational arithmetic standing for Python float arithmetic.         *)
(***************************************************************************)
Abs(x) == IF x < 0 THEN -x ELSE x

RECURSIVE GCD(_, _)
GCD(a, b) == IF b = 0 THEN a ELSE GCD(b, a % b)

\* the rational n/d in lowest terms with a positive denominator
Reduced(n, d, g) ==
    IF d < 0 THEN [n |-> -(n \div g), d |-> -(d \div g)]
    ELSE [n |-> n \div g, d |-> d \div g]
Rat(n, d) == Reduced(n, d, GCD(Abs(n), Abs(d)))

R(i) == [n |-> i, d |-> 1]
Zero == R(0)
One == R(1)

\* a + b over the least common denominator, g = gcd(a.d, b.d)
RAddOver(a, b, g) ==
    Rat(a.n * (b.d \div g) + b.n * (a.d \div g), (a.d \div g) * b.d)
RAdd(a, b) == RAddOver(a, b, GCD(a.d, b.d))
RNeg(a) == [n |-> -a.n, d |-> a.d]
RSub(a, b) == RAdd(a, RNeg(b))
\* a * b, cancelling g1 = gcd(a.n, b.d) and g2 = gcd(b.n, a.d) first
RMulBy(a, b, g1, g2) ==
    Rat((a.n \div g1) * (b.n \div g2), (a.d \div g2) * (b.d \div g1))
RMul(a, b) ==
    IF a.n = 0 \/ b.n = 0 THEN Zero
    ELSE RMulBy(a, b, GCD(Abs(a.n), b.d), GCD(Abs(b.n), a.d))
\* b must not be zero: the callers model ZeroDivisionError before dividing
RDiv(a, b) == RMul(a, Rat(b.d, b.n))
\* na/da < nb/db for positive da and db, without a product of the two: by
\* the whole parts, and when those are equal by the inverses of the rests
\* (\div rounds toward minus infinity for a positive divisor)
RECURSIVE FracLt(_, _, _, _)
FracLt(na, da, nb, db) ==
    IF na \div da # nb \div db THEN na \div da < nb \div db
    ELSE IF nb % db = 0 THEN FALSE
    ELSE IF na % da = 0 THEN TRUE
    ELSE FracLt(db, nb % db, da, na % da)
RLt(a, b) == FracLt(a.n, a.d, b.n, b.d)
RLe(a, b) == ~RLt(b, a)
RGt(a, b) == RLt(b, a)
RGe(a, b) == RLe(b, a)
RIsZero(a) == a.n = 0

\* floor of a rational (\div rounds toward minus infinity for a positive divisor)
RFloor(a) == a.n \div a.d
\* Python int(x): truncation toward zero
int(a) == IF a.n >= 0 THEN a.n \div a.d ELSE -((-a.n) \div a.d)

\* Python round(x) / round(x, 0): nearest integer, ties to the even one
\* f is the floor of a, twice is 2 * (a - f) * a.d
RoundFrom(a, f, twice) ==
    IF twice < a.d THEN f
    ELSE IF twice > a.d THEN f + 1
    ELSE IF f % 2 = 0 THEN f ELSE f + 1
round(a) == RoundFrom(a, RFloor(a), 2 * (a.n - RFloor(a) * a.d))
\* Python round(x, 1) and round(x, 2), as rationals
\* the whole part f is scaled on its own (10 and 100 are even, so the ties
\* fall as they do for the scaled number) and the rest a - f is rounded
RoundTo(a, f, scale) == Rat(f * scale + round(Rat((a.n - f * a.d) * scale, a.d)), scale)
round1(a) == RoundTo(a, RFloor(a), 10)
round2(a) == RoundTo(a, RFloor(a), 100)

\* p percent as a fraction: p / 100
Pct(p) == Rat(p, 100)

(***************************************************************************)
(* Model inputs.                                                           *)
(***************************************************************************)
Tickers == {"A", "B"}
\* Optional values: Python None is the empty sequence, a value v is <<v>>
None == <<>>
Some(v) == <<v>>

(***************************************************************************)
(* CostConfig and the price/fee formulas of Portfolio.buy / Portfolio.sell *)
(***************************************************************************)
CostConfig(s, c, t) == [slippage_pct |-> s, commission_pct |-> c, tax_pct |-> t]

\* exec_price = price * (1 + slippage_pct / 100)
BuyExecPrice(cost, price) == RMul(R(price), RAdd(One, Pct(cost.slippage_pct)))
\* exec_price = price * (1 - slippage_pct / 100)
SellExecPrice(cost, price) == RMul(R(price), RSub(One, Pct(cost.slippage_pct)))
\* commission = gross * (commission_pct / 100)
Commission(cost, gross) == RMul(gross, Pct(cost.commission_pct))
\* tax = gross_proceeds * (tax_pct / 100)
Tax(cost, gross) == RMul(gross, Pct(cost.tax_pct))
\* gross_cost + commission
WithCommission(cost, gross) == RAdd(gross, Commission(cost, gross))
\* gross_proceeds - commission - tax
NetOf(cost, gross) == RSub(RSub(gross, Commission(cost, gross)), Tax(cost, gross))
\* exec_price * (1 + commission_pct / 100): what one share costs a buyer
UnitCost(cost, price) ==
    RMul(BuyExecPrice(cost, price), RAdd(One, Pct(cost.commission_pct)))

(***************************************************************************)
(* Portfolio: the ledger.  positions is a function from the held tickers   *)
(* to [shares, avg_price, name]; trades is the list of TradeRecords.       *)
(***************************************************************************)
EmptyDict == [x \in {} |-> 0]

Portfolio(initial_capital, cost_config) ==
    [initial_capital |-> initial_capital,
     cash |-> initial_capital,
     positions |-> EmptyDict,
     equity_history |-> <<>>,
     trades |-> <<>>,
     cost |-> cost_config,
     total_slippage_cost |-> Zero,
     total_commission_cost |-> Zero,
     total_tax_cost |-> Zero]

TradeRecord(ticker, name, entry_date, entry_price, exec_price, shares, entry_cost) ==
    [ticker |-> ticker, name |-> name, entry_date |-> entry_date,
     entry_price |-> entry_price, exec_price |-> exec_price, shares |-> shares,
     entry_cost |-> entry_cost, exit_date |-> None, exit_price |-> None,
     exec_exit_price |-> None, exit_cost |-> Zero, pnl |-> Zero,
     pnl_pct |-> Zero, status |-> "open"]

Held(pf) == DOMAIN pf.positions

\* dict assignment / deletion
DictSet(f, k, v) == [x \in (DOMAIN f) \cup {k} |-> IF x = k THEN v ELSE f[x]]
DictDel(f, k) == [x \in (DOMAIN f) \ {k} |-> f[x]]

\* mutants of BuyShares: the request is never shrunk; the shrunk size leaves
\* the commission out; the price is not validated
BuyShares_NoShrink(pf, price, shares) ==
    IF shares <= 0 \/ price <= 0 THEN 0 ELSE shares

BuyShares_ShrinkIgnoresFee(pf, price, shares) ==
    IF shares <= 0 \/ price <= 0 THEN 0
    ELSE LET exec_price == BuyExecPrice(pf.cost, price)
             gross_cost == RMul(exec_price, R(shares))
             total_cost == RAdd(gross_cost, Commission(pf.cost, gross_cost))
         IN  IF RGt(total_cost, pf.cash)
             THEN LET max_shares == int(RDiv(pf.cash, exec_price))
                  IN  IF max_shares <= 0 THEN 0 ELSE max_shares
             ELSE shares

BuyShares_NoPriceCheck(pf, price, shares) ==
    IF shares <= 0 THEN 0
    ELSE LET exec_price == BuyExecPrice(pf.cost, price)
             gross_cost == RMul(exec_price, R(shares))
             total_cost == RAdd(gross_cost, Commission(pf.cost, gross_cost))
         IN  IF RGt(total_cost, pf.cash)
             THEN LET max_shares ==
                          int(RDiv(pf.cash,
                                   RMul(exec_price, RAdd(One, Pct(pf.cost.commission_pct)))))
                  IN  IF max_shares <= 0 THEN 0 ELSE max_shares
             ELSE shares

\* if shares <= 0: return 0
NoneIfNegative(shares) == IF shares <= 0 THEN 0 ELSE shares

\* the shares a buy fills: 0 when rejected, the request when affordable,
\* else the affordable maximum
BuyShares(pf, price, shares) ==
    IF shares <= 0 \/ price <= 0 THEN 0
    ELSE IF RGt(WithCommission(pf.cost, RMul(BuyExecPrice(pf.cost, price), R(shares))),
                pf.cash)
    THEN NoneIfNegative(int(RDiv(pf.cash, UnitCost(pf.cost, price))))
    ELSE shares

\* mutant of BuyTotalCost: the commission is not charged to cash
BuyTotalCost_NoCommission(pf, price, shares) ==
    RMul(BuyExecPrice(pf.cost, price), R(shares))

\* what a buy filling `shares` takes from cash: gross_cost + commission
BuyTotalCost(pf, price, shares) ==
    WithCommission(pf.cost, RMul(BuyExecPrice(pf.cost, price), R(shares)))

\* the position taking the price of the latest fill as its average
BuyPosition_LastPrice(pf, ticker, exec_price, shares, name) ==
    IF ticker \in Held(pf)
    THEN [pf.positions[ticker] EXCEPT !.avg_price = exec_price, !.shares = @ + shares]
    ELSE [shares |-> shares, avg_price |-> exec_price, name |-> name]

\* the position after a fill of `shares` at exec_price
BuyPosition(pf, ticker, exec_price, shares, name) ==
    IF ticker \in Held(pf)
    THEN [pf.positions[ticker] EXCEPT
            !.avg_price = RDiv(RAdd(RMul(@, R(pf.positions[ticker].shares)),
                                    RMul(exec_price, R(shares))),
                               R(pf.positions[ticker].shares + shares)),
            !.shares = @ + shares]
    ELSE [shares |-> shares, avg_price |-> exec_price, name |-> name]

\* the ledger after `filled` > 0 shares were bought at exec_price: the
\* counters, cash, the position and the new TradeRecord
BuyBook(pf, ticker, price, date, filled, exec_price, commission, slippage_cost) ==
    [pf EXCEPT
       !.total_slippage_cost = RAdd(@, slippage_cost),
       !.total_commission_cost = RAdd(@, commission),
       !.cash = RSub(@, BuyTotalCost(pf, price, filled)),
       !.positions = DictSet(@, ticker,
                             BuyPosition(pf, ticker, exec_price, filled, ticker)),
       !.trades = Append(@, TradeRecord(ticker, ticker, date, price,
                                        round1(exec_price), filled,
                                        R(round(RAdd(commission, slippage_cost)))))]

\* commission = gross_cost * commission_pct / 100 and
\* slippage_cost = (exec_price - price) * shares of the fill
BuyFill(pf, ticker, price, date, filled, exec_price) ==
    BuyBook(pf, ticker, price, date, filled, exec_price,
            Commission(pf.cost, RMul(exec_price, R(filled))),
            RMul(RSub(exec_price, R(price)), R(filled)))

BuyFilled(pf, ticker, price, date, filled) ==
    IF filled = 0 THEN [pf |-> pf, ret |-> 0, raised |-> FALSE]
    ELSE [pf |-> BuyFill(pf, ticker, price, date, filled, BuyExecPrice(pf.cost, price)),
          ret |-> filled, raised |-> FALSE]

\* Portfolio.buy: the portfolio afterwards and the value returned
buy(pf, ticker, price, shares, date) ==
    BuyFilled(pf, ticker, price, date, BuyShares(pf, price, shares))

Min(a, b) == IF a <= b THEN a ELSE b

\* mutants of LastOpen: the scan does not test the status; the scan runs
\* forward (first in, first out)
LastOpen_AnyStatus(trades, ticker) ==
    LET mine == {i \in 1..Len(trades) : trades[i].ticker = ticker}
    IN  IF mine = {} THEN 0 ELSE CHOOSE i \in mine : \A j \in mine : j <= i

LastOpen_Fifo(trades, ticker) ==
    LET open == {i \in 1..Len(trades) :
                    trades[i].ticker = ticker /\ trades[i].status = "open"}
    IN  IF open = {} THEN 0 ELSE CHOOSE i \in open : \A j \in open : i <= j

\* index of the last open TradeRecord of `ticker` (0 when there is none):
\* the record the reversed scan of Portfolio.sell stops at
LastOpen(trades, ticker) ==
    LET open == {i \in 1..Len(trades) :
                    trades[i].ticker = ticker /\ trades[i].status = "open"}
    IN  IF open = {} THEN 0 ELSE CHOOSE i \in open : \A j \in open : j <= i

\* a sell that leaves the records alone
CloseTrade_KeepOpen(trades, ticker, date, price, exec_price, exit_cost, pnl, pnl_pct) == trades

\* the trade list after the sell's record update
CloseTrade(trades, ticker, date, price, exec_price, exit_cost, pnl, pnl_pct) ==
    LET k == LastOpen(trades, ticker)
    IN  IF k = 0 THEN trades
        ELSE [trades EXCEPT ![k] =
                 [@ EXCEPT !.exit_date = Some(date),
                           !.exit_price = Some(price),
                           !.exec_exit_price = Some(round1(exec_price)),
                           !.exit_cost = R(round(exit_cost)),
                           !.pnl = R(round(pnl)),
                           !.pnl_pct = round2(pnl_pct),
                           !.status = "closed"]]

\* the positions after `actual` shares of `ticker` left
SellPosition(pf, ticker, actual) ==
    LET left == pf.positions[ticker].shares - actual
    IN  IF left <= 0 THEN DictDel(pf.positions, ticker)
        ELSE [pf.positions EXCEPT ![ticker].shares = left]

\* lines 167-172: the counters and cash after the sale
SellPaid(pf, commission, tax, slippage_cost, net_proceeds) ==
    [pf EXCEPT
       !.total_slippage_cost = RAdd(@, slippage_cost),
       !.total_commission_cost = RAdd(@, commission),
       !.total_tax_cost = RAdd(@, tax),
       !.cash = RAdd(@, net_proceeds)]

\* lines 175-176: pnl_pct, where basis = avg_price * actual is not 0
PnlPct(avg_price, net_proceeds, basis) ==
    IF RGt(avg_price, Zero)
    THEN RMul(RSub(RDiv(net_proceeds, basis), One), R(100))
    ELSE Zero

\* lines 167-193 from the amounts of the sale: ZeroDivisionError in the
\* pnl_pct division of line 176 after cash and the counters were updated,
\* else the record and position updates
SellBook(pf, ticker, price, date, actual, exec_price, commission, tax, slippage_cost, net_proceeds, basis) ==
    IF RGt(pf.positions[ticker].avg_price, Zero) /\ RIsZero(basis)
    THEN [pf |-> SellPaid(pf, commission, tax, slippage_cost, net_proceeds),
          ret |-> 0, raised |-> TRUE]
    ELSE [pf |-> [SellPaid(pf, commission, tax, slippage_cost, net_proceeds) EXCEPT
                    !.trades = CloseTrade(@, ticker, date, price, exec_price,
                                          RAdd(RAdd(commission, tax), slippage_cost),
                                          RSub(net_proceeds, basis),
                                          PnlPct(pf.positions[ticker].avg_price,
                                                 net_proceeds, basis)),
                    !.positions = SellPosition(pf, ticker, actual)],
          ret |-> actual, raised |-> FALSE]

\* lines 162-165 and 174: the amounts of a sale with the given gross proceeds
SellAmounts(pf, ticker, price, date, actual, exec_price, gross_proceeds) ==
    SellBook(pf, ticker, price, date, actual, exec_price,
             Commission(pf.cost, gross_proceeds), Tax(pf.cost, gross_proceeds),
             RMul(RSub(R(price), exec_price), R(actual)),
             NetOf(pf.cost, gross_proceeds),
             RMul(pf.positions[ticker].avg_price, R(actual)))

SellFill(pf, ticker, price, date, actual, exec_price) ==
    SellAmounts(pf, ticker, price, date, actual, exec_price,
                RMul(exec_price, R(actual)))

\* Portfolio.sell on a held ticker (lines 156-193): the portfolio afterwards,
\* the value returned, and whether the call raised
SellHeld(pf, ticker, price, shares, date) ==
    SellFill(pf, ticker, price, date, Min(shares, pf.positions[ticker].shares),
             SellExecPrice(pf.cost, price))

\* mutant of sell: the record update runs before the position check
sell_RecordFirst(pf, ticker, price, shares, date) ==
    IF ticker \notin Held(pf)
    THEN [pf |-> [pf EXCEPT !.trades =
                     CloseTrade(@, ticker, date, price, SellExecPrice(pf.cost, price),
                                Zero, Zero, Zero)],
          ret |-> 0, raised |-> FALSE]
    ELSE SellHeld(pf, ticker, price, shares, date)

\* Portfolio.sell
sell(pf, ticker, price, shares, date) ==
    IF ticker \notin Held(pf) THEN [pf |-> pf, ret |-> 0, raised |-> FALSE]
    ELSE SellHeld(pf, ticker, price, shares, date)

\* Portfolio.sell_all: every held ticker that has a mark is sold in full.
\* The sells of different tickers touch different positions and records and
\* add to the same sums, so the order of the dict's keys does not matter.
RECURSIVE SellEach(_, _, _, _)
SellEach(pf, todo, prices, date) ==
    IF todo = {} THEN pf
    ELSE LET ticker == CHOOSE t \in todo : TRUE
             after == IF ticker \in DOMAIN prices
                      THEN sell(pf, ticker, prices[ticker],
                                pf.positions[ticker].shares, date).pf
                      ELSE pf
         IN  SellEach(after, todo \ {ticker}, prices, date)

sell_all(pf, prices, date) == SellEach(pf, Held(pf), prices, date)

\* Portfolio.equity: cash + shares * mark, avg_price when the ticker has no mark
RECURSIVE SumValue(_, _, _)
SumValue(pf, todo, prices) ==
    IF todo = {} THEN Zero
    ELSE LET ticker == CHOOSE t \in todo : TRUE
             pos == pf.positions[ticker]
             p == IF ticker \in DOMAIN prices THEN R(prices[ticker]) ELSE pos.avg_price
         IN  RAdd(RMul(p, R(pos.shares)), SumValue(pf, todo \ {ticker}, prices))

equity(pf, prices) == RAdd(pf.cash, SumValue(pf, Held(pf), prices))

\* Portfolio.snapshot
EquitySnapshot(pf, date, eq) ==
    [date |-> date, equity |-> eq, cash |-> pf.cash, invested |-> RSub(eq, pf.cash)]
snapshot(pf, date, prices) ==
    [pf EXCEPT !.equity_history = Append(@, EquitySnapshot(pf, date, equity(pf, prices)))]

\* Portfolio.get_cost_summary
get_cost_summary(pf) ==
    [slippage |-> round(pf.total_slippage_cost),
     commission |-> round(pf.total_commission_cost),
     tax |-> round(pf.total_tax_cost),
     total |-> round(RAdd(RAdd(pf.total_slippage_cost, pf.total_commission_cost),
                          pf.total_tax_cost))]

(***************************************************************************)
(* BacktestEngine: the price index.  A date is a day number, a bar is a   *)
(* date with its close, the one field the strategies read.                *)
(***************************************************************************)
Bar(date, close) == [date |-> date, close |-> close]

\* sorted(...) of a set of dates
RECURSIVE SortedSeq(_)
SortedSeq(S) ==
    IF S = {} THEN <<>>
    ELSE LET m == CHOOSE x \in S : \A y \in S : x <= y
         IN  <<m>> \o SortedSeq(S \ {m})

\* add_price_data's sorted(data, key=date); the rows of one ticker have
\* distinct dates, so the rows in any order are a set
SortByDate(data) ==
    LET ds == SortedSeq({b.date : b \in data})
    IN  [k \in 1..Len(ds) |-> CHOOSE b \in data : b.date = ds[k]]

\* BacktestEngine.add_price_data
add_price_data(pd, ticker, data) == DictSet(pd, ticker, SortByDate(data))

\* BacktestEngine._build_dates: the sorted union of every ticker's dates
build_dates(pd) ==
    SortedSeq(UNION {{pd[t][k].date : k \in 1..Len(pd[t])} : t \in DOMAIN pd})

\* BacktestEngine._price: the close of the bar dated exactly `date`
PriceAt(pd, ticker, date) ==
    IF ticker \in DOMAIN pd /\ \E k \in 1..Len(pd[ticker]) : pd[ticker][k].date = date
    THEN Some(pd[ticker][CHOOSE k \in 1..Len(pd[ticker]) : pd[ticker][k].date = date].close)
    ELSE None

\* BacktestEngine._prices_on_date: the tickers with a bar on `date`
prices_on_date(pd, date) ==
    [t \in {x \in DOMAIN pd : PriceAt(pd, x, date) # None} |-> PriceAt(pd, t, date)[1]]

\* mutant of last_known_prices: only the bars dated exactly `date` count, no
\* earlier close is carried forward
last_known_prices_ExactDate(pd, date) ==
    [t \in {x \in DOMAIN pd : \E k \in 1..Len(pd[x]) : pd[x][k].date = date} |->
        pd[t][CHOOSE k \in 1..Len(pd[t]) : pd[t][k].date = date].close]

\* the loop of _last_known_prices over one ticker's rows: remember the
\* close of each row dated <= date, stop at the first later row
RECURSIVE LastKnownScan(_, _, _, _)
LastKnownScan(data, date, k, found) ==
    IF k > Len(data) THEN found
    ELSE IF data[k].date <= date
         THEN LastKnownScan(data, date, k + 1, Some(data[k].close))
         ELSE found

\* BacktestEngine._last_known_prices
last_known_prices(pd, date) ==
    [t \in {x \in DOMAIN pd : LastKnownScan(pd[x], date, 1, None) # None} |->
        LastKnownScan(pd[t], date, 1, None)[1]]

\* closes = [row['close'] for row in price_data[t] if row['date'] <= date]
ClosesUpTo(pd, t, date) ==
    LET Upto(b) == b.date <= date
        rows == SelectSeq(pd[t], Upto)
    IN  [k \in 1..Len(rows) |-> rows[k].close]

\* s[-n:] for n >= 1
LastN(s, n) == IF Len(s) <= n THEN s ELSE SubSeq(s, Len(s) - n + 1, Len(s))

\* dates = [d for d in all_dates if start <= d <= end], where a missing
\* start or end is the first or last of all_dates (all_dates is not empty)
WindowDates(all_dates, start_date, end_date) ==
    LET start == IF start_date = None THEN all_dates[1] ELSE start_date[1]
        end == IF end_date = None THEN all_dates[Len(all_dates)] ELSE end_date[1]
        InWindow(d) == start <= d /\ d <= end
    IN  SelectSeq(all_dates, InWindow)

\* valid = [t for t in tickers if t in price_data and price_data[t]]
ValidTickers(pd, tickers) ==
    LET Loaded(t) == t \in DOMAIN pd /\ Len(pd[t]) > 0
    IN  SelectSeq(tickers, Loaded)

\* shares = int(alloc / (exec_p * (1 + commission_pct / 100))), price > 0
SizeShares(cost, alloc, price) ==
    int(RDiv(alloc, RMul(BuyExecPrice(cost, price), RAdd(One, Pct(cost.commission_pct)))))

(***************************************************************************)
(* The state of one day's trading of a strategy: the ledger, the locals   *)
(* peaks, sold_day, holding and initial_buy_done of strategies 4 and 6,   *)
(* and whether an exception has left the loop.                            *)
(***************************************************************************)
Locals(pf, r) ==
    [pf |-> pf, peaks |-> r.peaks, sold_day |-> r.sold_day, holding |-> r.holding,
     initial_buy_done |-> r.initial_buy_done, raised |-> FALSE]

\* the state after a buy or a sell returned (or raised) r
Traded(st, r) == [st EXCEPT !.pf = r.pf, !.raised = r.raised]

\* dict.get(key, default)
Get(dict, key, default) == IF key \in DOMAIN dict THEN dict[key] ELSE default

(***************************************************************************)
(* Strategy 1, run_equal_weight: the buys of the first date.              *)
(***************************************************************************)
\* quote is _price(ticker, buy_date); `if price and price > 0`
EqualWeightBuy(pf, ticker, quote, alloc, buy_date) ==
    IF quote # None /\ quote[1] > 0
    THEN buy(pf, ticker, quote[1], SizeShares(pf.cost, alloc, quote[1]), buy_date).pf
    ELSE pf

RECURSIVE EqualWeightBuys(_, _, _, _, _, _)
EqualWeightBuys(pf, pd, valid, k, alloc, buy_date) ==
    IF k > Len(valid) THEN pf
    ELSE EqualWeightBuys(EqualWeightBuy(pf, valid[k], PriceAt(pd, valid[k], buy_date),
                                        alloc, buy_date),
                         pd, valid, k + 1, alloc, buy_date)

(***************************************************************************)
(* Strategy 2, run_rebalance: the trading of a rebalancing day.           *)
(***************************************************************************)
RebalanceBuy(pf, ticker, alloc, prices, date) ==
    IF ticker \in DOMAIN prices /\ prices[ticker] > 0
    THEN buy(pf, ticker, prices[ticker],
             SizeShares(pf.cost, alloc, prices[ticker]), date).pf
    ELSE pf

RECURSIVE RebalanceBuys(_, _, _, _, _, _)
RebalanceBuys(pf, valid, k, alloc, prices, date) ==
    IF k > Len(valid) THEN pf
    ELSE RebalanceBuys(RebalanceBuy(pf, valid[k], alloc, prices, date),
                       valid, k + 1, alloc, prices, date)

\* mutant of RebalanceDay: the holdings are kept, the buys come on top
RebalanceDay_KeepHoldings(pf, valid, prices, date) ==
    RebalanceBuys(pf, valid, 1, RDiv(equity(pf, prices), R(Len(valid))), prices, date)

\* eq = equity(prices) after sell_all, alloc = eq / len(valid), the buys
RebalanceAfterSells(pf, valid, prices, date) ==
    RebalanceBuys(pf, valid, 1, RDiv(equity(pf, prices), R(Len(valid))), prices, date)

\* one iteration of run_rebalance's loop on a rebalancing day, the snapshot
\* excluded
RebalanceDay(pf, valid, prices, date) ==
    RebalanceAfterSells(sell_all(pf, prices, date), valid, prices, date)

(***************************************************************************)
(* Strategy 3, run_custom.                                                 *)
(***************************************************************************)
\* a signal dict; weight is None when the dict has no 'weight' key
Signal(date, ticker, action, weight) ==
    [date |-> date, ticker |-> ticker, action |-> action, weight |-> weight]

\* signal_map.get(date, []): the signals of a date, in list order
SignalsOn(signals, date) ==
    LET OnDate(sig) == sig.date = date
    IN  SelectSeq(signals, OnDate)

\* sig.get('weight', 1.0 / max(len(price_data), 1))
SignalWeight(sig, n_tickers) ==
    IF sig.weight = None THEN Rat(1, IF n_tickers > 1 THEN n_tickers ELSE 1)
    ELSE sig.weight[1]

\* one signal; n_tickers is len(price_data)
CustomSignal(st, sig, prices, date, n_tickers) ==
    IF sig.action = "buy" /\ sig.ticker \in DOMAIN prices
    THEN \* alloc / 0.0 raises ZeroDivisionError
         IF RIsZero(UnitCost(st.pf.cost, prices[sig.ticker]))
         THEN [st EXCEPT !.raised = TRUE]
         ELSE Traded(st, buy(st.pf, sig.ticker, prices[sig.ticker],
                             SizeShares(st.pf.cost,
                                        RMul(equity(st.pf, prices),
                                             SignalWeight(sig, n_tickers)),
                                        prices[sig.ticker]),
                             date))
    ELSE IF sig.action = "sell" /\ sig.ticker \in Held(st.pf)
    THEN \* prices[ticker] raises KeyError for an unpriced ticker
         IF sig.ticker \notin DOMAIN prices
         THEN [st EXCEPT !.raised = TRUE]
         ELSE Traded(st, sell(st.pf, sig.ticker, prices[sig.ticker],
                              st.pf.positions[sig.ticker].shares, date))
    ELSE st

\* the signals of one date, in list order
RECURSIVE CustomSignals(_, _, _, _, _, _)
CustomSignals(st, sigs, k, prices, date, n_tickers) ==
    IF k > Len(sigs) \/ st.raised THEN st
    ELSE CustomSignals(CustomSignal(st, sigs[k], prices, date, n_tickers),
                       sigs, k + 1, prices, date, n_tickers)

(***************************************************************************)
(* Strategies 4 and 6: the trailing stop.                                 *)
(***************************************************************************)
\* the forced sale of t on day index i: the sell, holding[t] = False and
\* sold_day[t] = i
StopOut(st, t, p, i, date) ==
    [Traded(st, IF t \in Held(st.pf)
                THEN sell(st.pf, t, p, st.pf.positions[t].shares, date)
                ELSE [pf |-> st.pf, ret |-> 0, raised |-> FALSE])
       EXCEPT !.holding = DictSet(@, t, FALSE),
              !.sold_day = DictSet(@, t, i)]

\* The whole-number stop_pct values s for which the binary64 evaluation of
\* (p / pk - 1) * 100 <= s holds when p / pk is exactly 1 + s / 100.  p / pk
\* is then the double nearest to 1 + s / 100 whatever p and pk are, so the
\* outcome depends on s alone: for s = -10 the product is
\* -9.999999999999998 and the test fails, for s = -25 it is -25.0.
BoundaryStops ==
    ((-100)..(-67)) \cup ((-65)..(-46)) \cup ((-43)..(-34)) \cup ((-31)..(-23))
        \cup ((-18)..(-12)) \cup ((-6)..0)

\* dd_pct <= stop_pct, dd being the exact value of (p / pk - 1) * 100: away
\* from the boundary the binary64 result is on the same side as dd
DrawdownReached(dd, stop_pct) ==
    IF dd = R(stop_pct) THEN stop_pct \in BoundaryStops ELSE RLe(dd, R(stop_pct))

\* the stop test against the peak pk = peaks.get(t, p)
StopTest(st, t, p, pk, i, date, stop_pct) ==
    IF pk > 0 /\ DrawdownReached(RMul(RSub(Rat(p, pk), One), R(100)), stop_pct)
    THEN StopOut(st, t, p, i, date)
    ELSE st

\* a peak that stays at the entry price
StopPeak_Frozen(st, t, p) == st

\* the peak update of a held ticker priced at p, then the stop test
StopPeak(st, t, p) ==
    IF p > Get(st.peaks, t, 0) THEN [st EXCEPT !.peaks = DictSet(@, t, p)] ELSE st

StopTicker(st, t, prices, i, date, stop_pct) ==
    IF ~st.holding[t] \/ t \notin DOMAIN prices THEN st
    ELSE StopTest(StopPeak(st, t, prices[t]), t, prices[t],
                  Get(StopPeak(st, t, prices[t]).peaks, t, prices[t]),
                  i, date, stop_pct)

\* the trailing-stop loop over the valid tickers; i is the day's index
RECURSIVE StopCheck(_, _, _, _, _, _, _)
StopCheck(st, valid, k, prices, i, date, stop_pct) ==
    IF k > Len(valid) \/ st.raised THEN st
    ELSE StopCheck(StopTicker(st, valid[k], prices, i, date, stop_pct),
                   valid, k + 1, prices, i, date, stop_pct)

(***************************************************************************)
(* Strategies 4 and 6: the inverse-volatility buys.                       *)
(***************************************************************************)
\* rets = [closes[j] / closes[j - 1] - 1 for j in range(1, len(closes))]
\* raises ZeroDivisionError when a close before the last one is 0
ReturnsRaise(closes) == \E j \in 1..(Len(closes) - 1) : closes[j] = 0
Returns(closes) ==
    [j \in 1..(Len(closes) - 1) |-> RSub(Rat(closes[j + 1], closes[j]), One)]

RECURSIVE RSum(_, _)
RSum(xs, k) == IF k = 0 THEN Zero ELSE RAdd(xs[k], RSum(xs, k - 1))

\* the sum of the squared distances of xs[1..k] from mean
RECURSIVE SumSq(_, _, _)
SumSq(xs, k, mean) ==
    IF k = 0 THEN Zero
    ELSE RAdd(RMul(RSub(xs[k], mean), RSub(xs[k], mean)), SumSq(xs, k - 1, mean))

\* statistics.stdev(xs) ** 2, the sample variance, len(xs) > 1
Variance(xs) ==
    RDiv(SumSq(xs, Len(xs), RDiv(RSum(xs, Len(xs)), R(Len(xs)))), R(Len(xs) - 1))

\* inv_vols[t] = 1.0 / max(vol, 1e-8).  The standard deviation is a square
\* root, so the value is kept as the variance v it is the root of: the
\* record stands for 1 / sqrt(v), or for 1e8 when the floor 1e-8 applies.
\* A variance of closes that are integers of the model's size is either 0
\* or far above 1e-16, so the floor applies exactly when v = 0.
VolFloorInv == [floor |-> TRUE, v |-> One]
UnitInv == [floor |-> FALSE, v |-> One]
InvOfVariance(v) == IF RIsZero(v) THEN VolFloorInv ELSE [floor |-> FALSE, v |-> v]
InvVol(closes) ==
    IF Len(closes) >= 2
    THEN IF Len(closes) - 1 > 1 THEN InvOfVariance(Variance(Returns(closes)))
         ELSE UnitInv
    ELSE UnitInv

\* the least s with s * s >= d
CeilSqrt(d) == CHOOSE s \in 0..d : s * s >= d /\ (s = 0 \/ (s - 1) * (s - 1) < d)

\* the sign of q - w
RSign(q, w) == IF RLt(q, w) THEN -1 ELSE IF RLt(w, q) THEN 1 ELSE 0

\* the sign of r - 1e8 * sqrt(v) for rationals r >= 0, v > 0: -1 without
\* any squaring when r.n * CeilSqrt(v.d) < 1e8, by squares otherwise
FloorCmp(r, v) ==
    IF r.n <= (100000000 \div CeilSqrt(v.d)) - 1 THEN -1
    ELSE RSign(RMul(Rat(r.n, r.d * 10000), Rat(r.n, r.d * 10000)),
               RMul(R(100000000), v))

\* x * iu <= y * it for rationals x, y >= 0 and two inverse volatilities
InvLe(x, iu, y, it) ==
    IF iu.floor = it.floor
    THEN IF iu.floor \/ iu.v = it.v THEN RLe(x, y)
         ELSE RLe(RMul(RMul(x, x), it.v), RMul(RMul(y, y), iu.v))
    ELSE IF it.floor
    THEN \* x / sqrt(vu) <= y * 1e8
         RIsZero(x) \/ (~RIsZero(y) /\ FloorCmp(RDiv(x, y), iu.v) <= 0)
    ELSE \* x * 1e8 <= y / sqrt(vt)
         RIsZero(x) \/ (~RIsZero(y) /\ FloorCmp(RDiv(y, x), it.v) >= 0)

\* n shares fit the weight of a ticker with inverse volatility it when the
\* other buyable ticker has iu: n * (it + iu) <= K * it
ShareFits(n, K, it, iu) == InvLe(R(n), iu, RSub(K, R(n)), it)

LargestShare(K, it, iu) ==
    CHOOSE n \in 0..int(K) :
        /\ ShareFits(n, K, it, iu)
        /\ \A m \in (n + 1)..int(K) : ~ShareFits(m, K, it, iu)

\* int(K * weight) with weight = inv_vols[t] / total_inv, K > 0.  total_inv
\* has one term per distinct buyable ticker, at most two in this model.
LargestFit(K, t, invs, others) ==
    IF others = {} THEN int(K)
    ELSE LargestShare(K, invs[t], invs[CHOOSE u \in others : TRUE])

\* shares = int(available * weight / (exec_p * (1 + commission_pct / 100)))
WeightedShares(available, unit, t, invs) ==
    LargestFit(RDiv(available, unit), t, invs, DOMAIN invs \ {t})

\* the state after portfolio.buy returned r for t at p; `first` tells
\* whether the strategy keeps initial_buy_done (4 does, 6 does not)
Bought(st, t, p, r, first) ==
    IF r.ret > 0
    THEN [st EXCEPT !.pf = r.pf,
                    !.holding = DictSet(@, t, TRUE),
                    !.peaks = DictSet(@, t, p),
                    !.initial_buy_done = IF first THEN TRUE ELSE @]
    ELSE [st EXCEPT !.pf = r.pf]

WeightedOrder(st, t, p, shares, date, first) ==
    IF shares <= 0 THEN st
    ELSE Bought(st, t, p, buy(st.pf, t, p, shares, date), first)

\* one buyable ticker: `if alloc <= 0: continue`, the sizing, the buy
WeightedBuy(st, t, p, date, available, invs, first) ==
    IF ~RGt(available, Zero) THEN st
    ELSE WeightedOrder(st, t, p,
                       WeightedShares(available, UnitCost(st.pf.cost, p), t, invs),
                       date, first)

\* the buy loop over the buyable tickers
RECURSIVE WeightedBuys(_, _, _, _, _, _, _, _)
WeightedBuys(st, buyable, k, prices, date, available, invs, first) ==
    IF k > Len(buyable) THEN st
    ELSE WeightedBuys(WeightedBuy(st, buyable[k], prices[buyable[k]], date,
                                  available, invs, first),
                      buyable, k + 1, prices, date, available, invs, first)

\* closes[-(lookback + 1):] of the closes up to date
RecentCloses(pd, t, date, lookback) == LastN(ClosesUpTo(pd, t, date), lookback + 1)

\* inv_vols and the buys of the buyable tickers; available is the cash
\* before the first buy
VolatilityBuys(st, pd, buyable, prices, date, lookback, first) ==
    IF buyable = <<>> THEN st
    ELSE IF \E k \in 1..Len(buyable) :
               /\ Len(RecentCloses(pd, buyable[k], date, lookback)) >= 2
               /\ ReturnsRaise(RecentCloses(pd, buyable[k], date, lookback))
    THEN [st EXCEPT !.raised = TRUE]
    ELSE WeightedBuys(st, buyable, 1, prices, date, st.pf.cash,
                      [t \in {buyable[k] : k \in 1..Len(buyable)} |->
                          InvVol(RecentCloses(pd, t, date, lookback))],
                      first)

\* mutants of VolatilityEntries: the cooldown ends one day early; a
\* ticker that was stopped out is bought again though reentry is off
VolatilityEntries_ShortCooldown(st, pd, valid, prices, i, date, params) ==
    LET Buyable(t) ==
            /\ ~st.holding[t]
            /\ ~(~params.reentry /\ st.sold_day[t] >= 0 /\ st.initial_buy_done)
            /\ ~(i - st.sold_day[t] < params.cooldown)
            /\ t \in DOMAIN prices /\ prices[t] > 0
    IN  IF st.raised THEN st
        ELSE VolatilityBuys(st, pd, SelectSeq(valid, Buyable), prices, date,
                            params.lookback, TRUE)
VolatilityEntries_Reenter(st, pd, valid, prices, i, date, params) ==
    LET Buyable(t) ==
            /\ ~st.holding[t]
            /\ ~(i - st.sold_day[t] <= params.cooldown)
            /\ t \in DOMAIN prices /\ prices[t] > 0
    IN  IF st.raised THEN st
        ELSE VolatilityBuys(st, pd, SelectSeq(valid, Buyable), prices, date,
                            params.lookback, TRUE)

\* run_volatility_trailing_stop after the day's stop check: the buyable
\* tickers and their buys
VolatilityEntries(st, pd, valid, prices, i, date, params) ==
    LET Buyable(t) ==
            /\ ~st.holding[t]
            /\ ~(~params.reentry /\ st.sold_day[t] >= 0 /\ st.initial_buy_done)
            /\ ~(i - st.sold_day[t] <= params.cooldown)
            /\ t \in DOMAIN prices /\ prices[t] > 0
    IN  IF st.raised THEN st
        ELSE VolatilityBuys(st, pd, SelectSeq(valid, Buyable), prices, date,
                            params.lookback, TRUE)

\* one iteration of run_volatility_trailing_stop's loop, the snapshot excluded
VolatilityDay(st, pd, valid, prices, i, date, params) ==
    VolatilityEntries(StopCheck(st, valid, 1, prices, i, date, params.stop_pct),
                      pd, valid, prices, i, date, params)

(***************************************************************************)
(* Strategies 5 and 6: the moving-average filter.                         *)
(***************************************************************************)
\* ma_val = sum(closes[-ma_period:]) / ma_period
MaVal(recent, ma_period) ==
    RDiv(RSum([k \in 1..Len(recent) |-> R(recent[k])], Len(recent)), R(ma_period))

\* The side of the filter a valid ticker with these closes falls on:
\* "above" when its last close is above the mean of its last ma_period
\* closes or when it has fewer than ma_period closes but at least one,
\* "below" when it has ma_period closes and is not above, "none" without a
\* close.
MaSideOf(closes, ma_period) ==
    IF Len(closes) >= ma_period
    THEN IF RGt(R(closes[Len(closes)]), MaVal(LastN(closes, ma_period), ma_period))
         THEN "above" ELSE "below"
    ELSE IF Len(closes) > 0 THEN "above" ELSE "none"

MaSide(pd, t, date, ma_period) == MaSideOf(ClosesUpTo(pd, t, date), ma_period)

AboveMa(pd, valid, date, ma_period) ==
    LET Above(t) == MaSide(pd, t, date, ma_period) = "above"
    IN  SelectSeq(valid, Above)

BelowMa(pd, valid, date, ma_period) ==
    LET Below(t) == MaSide(pd, t, date, ma_period) = "below"
    IN  SelectSeq(valid, Below)

\* run_ma_filter: every below-MA ticker that is held and priced is sold
RECURSIVE MaSellBelow(_, _, _, _, _)
MaSellBelow(st, below, k, prices, date) ==
    IF k > Len(below) \/ st.raised THEN st
    ELSE MaSellBelow(IF below[k] \in Held(st.pf) /\ below[k] \in DOMAIN prices
                     THEN Traded(st, sell(st.pf, below[k], prices[below[k]],
                                          st.pf.positions[below[k]].shares, date))
                     ELSE st,
                     below, k + 1, prices, date)

MaBuy(st, t, p, shares, date) ==
    IF shares > 0 THEN Traded(st, buy(st.pf, t, p, shares, date)) ELSE st

MaSell(st, t, p, sell_shares, date) ==
    IF sell_shares > 0 THEN Traded(st, sell(st.pf, t, p, sell_shares, date)) ELSE st

\* mutant of MaAdjust: any difference is traded, however small
MaAdjust_NoBand(st, t, p, diff, date) ==
    IF RGt(diff, Zero)
    THEN MaBuy(st, t, p, SizeShares(st.pf.cost, diff, p), date)
    ELSE IF RLt(diff, Zero) /\ t \in Held(st.pf)
    THEN MaSell(st, t, p, int(RDiv(RNeg(diff), R(p))), date)
    ELSE st

\* the dead band: diff = target_alloc - current_value against 2 * price
MaAdjust(st, t, p, diff, date) ==
    IF RGt(diff, R(p * 2))
    THEN MaBuy(st, t, p, SizeShares(st.pf.cost, diff, p), date)
    ELSE IF RLt(diff, RNeg(R(p * 2))) /\ t \in Held(st.pf)
    THEN MaSell(st, t, p, int(RDiv(RNeg(diff), R(p))), date)
    ELSE st

\* current_value of an above-MA ticker
MaCurrentValue(st, t, prices) ==
    IF t \in Held(st.pf) /\ t \in DOMAIN prices
    THEN R(st.pf.positions[t].shares * prices[t])
    ELSE Zero

MaTicker(st, t, target_alloc, prices, date) ==
    IF t \notin DOMAIN prices \/ prices[t] <= 0 THEN st
    ELSE MaAdjust(st, t, prices[t],
                  RSub(target_alloc, MaCurrentValue(st, t, prices)), date)

\* run_ma_filter: each above-MA ticker is moved towards target_alloc when it
\* is further from it than twice its price
RECURSIVE MaTrueUp(_, _, _, _, _, _)
MaTrueUp(st, above, k, target_alloc, prices, date) ==
    IF k > Len(above) \/ st.raised THEN st
    ELSE MaTrueUp(MaTicker(st, above[k], target_alloc, prices, date),
                  above, k + 1, target_alloc, prices, date)

\* target_alloc = equity after the sells / len(above_ma), then the loop
MaAllocate(st, above_ma, prices, date) ==
    IF above_ma = <<>> THEN st
    ELSE MaTrueUp(st, above_ma, 1,
                  RDiv(equity(st.pf, prices), R(Len(above_ma))), prices, date)

\* mutant of MaFilterDay: the below-MA tickers are kept
MaFilterDay_KeepBelow(st, pd, valid, prices, date, ma_period) ==
    MaAllocate(st, AboveMa(pd, valid, date, ma_period), prices, date)

\* the body of run_ma_filter's check, the snapshot excluded
MaFilterDay(st, pd, valid, prices, date, ma_period) ==
    MaAllocate(MaSellBelow(st, BelowMa(pd, valid, date, ma_period), 1, prices, date),
               AboveMa(pd, valid, date, ma_period), prices, date)

(***************************************************************************)
(* Strategy 6, run_composite.                                              *)
(***************************************************************************)
\* a below-MA ticker that is held is sold and starts its cooldown
RECURSIVE CompositeSellBelow(_, _, _, _, _, _)
CompositeSellBelow(st, below, k, prices, i, date) ==
    IF k > Len(below) \/ st.raised THEN st
    ELSE CompositeSellBelow(
             IF /\ st.holding[below[k]]
                /\ below[k] \in Held(st.pf)
                /\ below[k] \in DOMAIN prices
             THEN [Traded(st, sell(st.pf, below[k], prices[below[k]],
                                   st.pf.positions[below[k]].shares, date))
                     EXCEPT !.holding = DictSet(@, below[k], FALSE),
                            !.sold_day = DictSet(@, below[k], i)]
             ELSE st,
             below, k + 1, prices, i, date)

\* the inverse-volatility buys of the above-MA tickers that are not held
\* and are out of cooldown
CompositeEntries(st, pd, above_ma, prices, i, date, params) ==
    LET Buyable(t) ==
            /\ ~st.holding[t]
            /\ ~(i - st.sold_day[t] <= params.cooldown)
            /\ t \in DOMAIN prices /\ prices[t] > 0
    IN  IF st.raised THEN st
        ELSE VolatilityBuys(st, pd, SelectSeq(above_ma, Buyable), prices, date,
                            params.lookback, FALSE)

\* the rebalancing stage of run_composite
CompositeRebalance(st, pd, valid, prices, i, date, params) ==
    CompositeEntries(
        CompositeSellBelow(st, BelowMa(pd, valid, date, params.ma_period), 1,
                           prices, i, date),
        pd, AboveMa(pd, valid, date, params.ma_period), prices, i, date, params)

\* mutant of CompositeAfterStop: the rebalancing stage runs every day
CompositeAfterStop_EveryDay(st, pd, valid, prices, i, date, params, due) ==
    IF st.raised THEN st
    ELSE CompositeRebalance(st, pd, valid, prices, i, date, params)

CompositeAfterStop(st, pd, valid, prices, i, date, params, due) ==
    IF st.raised \/ ~due THEN st
    ELSE CompositeRebalance(st, pd, valid, prices, i, date, params)

\* one iteration of run_composite's loop, the snapshot excluded
CompositeDay(st, pd, valid, prices, i, date, params, due) ==
    CompositeAfterStop(StopCheck(st, valid, 1, prices, i, date, params.stop_pct),
                       pd, valid, prices, i, date, params, due)

(***************************************************************************)
(* BacktestEngine._calc_metrics and get_results.  Square roots and powers *)
(* are kept as terms: a standard deviation as the list it is taken of, the *)
(* annualised return as its base and its number of days.                   *)
(***************************************************************************)
\* the peak kept at the first equity value
DdRaise_Never(acc, eq, date) == acc

\* `if eq > peak: peak = eq; tmp_peak_d = dates[i]`
DdRaise(acc, eq, date) ==
    IF RGt(eq, acc.peak) THEN [acc EXCEPT !.peak = eq, !.tmp_peak_d = date] ELSE acc

\* dd = (eq / peak - 1) * 100 if peak > 0 else 0
DdOf(eq, peak) ==
    IF RGt(peak, Zero) THEN RMul(RSub(RDiv(eq, peak), One), R(100)) ELSE Zero

\* dd_curve.append(round(dd, 2)) and `if dd < mdd`
DdRecord(acc, dd, date) ==
    [acc EXCEPT !.dd_curve = Append(@, [date |-> date, dd |-> round2(dd)]),
                !.mdd = IF RLt(dd, acc.mdd) THEN dd ELSE @,
                !.mdd_peak_d = IF RLt(dd, acc.mdd) THEN acc.tmp_peak_d ELSE @,
                !.mdd_trough_d = IF RLt(dd, acc.mdd) THEN date ELSE @]

DdPeaked(acc, eq, date) == DdRecord(acc, DdOf(eq, acc.peak), date)
DdStep(acc, eq, date) == DdPeaked(DdRaise(acc, eq, date), eq, date)

\* the MDD loop of _calc_metrics over equities[k..]
RECURSIVE DdLoop(_, _, _, _)
DdLoop(acc, equities, dates, k) ==
    IF k > Len(equities) THEN acc
    ELSE DdLoop(DdStep(acc, equities[k], dates[k]), equities, dates, k + 1)

\* peak = equities[0]; mdd = 0.0; dd_curve = []; the three dates = dates[0]
DdStart(equities, dates) ==
    [peak |-> equities[1], mdd |-> Zero, dd_curve |-> <<>>,
     tmp_peak_d |-> dates[1], mdd_peak_d |-> dates[1], mdd_trough_d |-> dates[1]]

\* daily_rets of equities[1..k]: equities[i] / equities[i - 1] - 1 wherever
\* equities[i - 1] > 0
RECURSIVE DailyRets(_, _)
DailyRets(equities, k) ==
    IF k <= 1 THEN <<>>
    ELSE IF RGt(equities[k - 1], Zero)
    THEN Append(DailyRets(equities, k - 1),
                RSub(RDiv(equities[k], equities[k - 1]), One))
    ELSE DailyRets(equities, k - 1)

\* statistics.stdev(rets) > 0 for two or more returns: they are not all equal
Spread(rets) == \E i, j \in 1..Len(rets) : rets[i] # rets[j]

\* vol = stdev(daily_rets) * sqrt(252) * 100 if len(daily_rets) > 1 else 0
Volatility(rets) ==
    IF Len(rets) > 1 /\ Spread(rets) THEN [stdev_of |-> rets] ELSE Zero

\* sharpe = (avg_d - 0.035 / 252) / std_d * sqrt(252) if std_d > 0 else 0,
\* and 0 for fewer than two returns
Sharpe(rets) ==
    IF Len(rets) > 1 /\ Spread(rets) THEN [sharpe_of |-> rets] ELSE Zero

\* The least base, to two decimals, whose power base ** (252 / n) is beyond
\* the largest double, 2 ** (1024 * n / 252): float.__pow__ raises
\* OverflowError from there on.
OverflowBase(n) ==
    IF n = 1 THEN Rat(1672, 100)
    ELSE IF n = 2 THEN Rat(27956, 100)
    ELSE IF n = 3 THEN Rat(467412, 100)
    ELSE Rat(7815055, 100)

\* ann_ret = ((equities[-1] / equities[0]) ** (252 / max(n, 1)) - 1) * 100
AnnRetRaises(ratio, n) == RGe(ratio, OverflowBase(n))
AnnRet(ratio, n) == [base |-> ratio, days |-> n]

\* win_rate = wins / len(closed) * 100 if closed else 0
WinRate(trades_) ==
    LET closed == {i \in 1..Len(trades_) : trades_[i].status = "closed"}
        wins == {i \in closed : RGt(trades_[i].pnl, Zero)}
    IN  IF closed = {} THEN Zero
        ELSE RMul(Rat(Cardinality(wins), Cardinality(closed)), R(100))

\* the dictionary _calc_metrics returns once its MDD loop has left acc
MetricsOf(pf, equities, dates, acc, rets) ==
    [initial_capital |-> pf.initial_capital,
     final_equity |-> round(equities[Len(equities)]),
     current_value |-> round(equities[Len(equities)]),
     profit_loss |-> round(RSub(equities[Len(equities)], pf.initial_capital)),
     total_return |->
         round2(RMul(RSub(RDiv(equities[Len(equities)], equities[1]), One), R(100))),
     annual_return |-> AnnRet(RDiv(equities[Len(equities)], equities[1]), Len(equities)),
     mdd |-> round2(acc.mdd),
     mdd_period |-> <<acc.mdd_peak_d, acc.mdd_trough_d>>,
     sharpe |-> Sharpe(rets),
     volatility |-> Volatility(rets),
     win_rate |-> round2(WinRate(pf.trades)),
     total_trades |-> Len(pf.trades),
     start_date |-> dates[1],
     end_date |-> dates[Len(dates)],
     trading_days |-> Len(equities),
     dd_curve |-> acc.dd_curve]

\* BacktestEngine._calc_metrics: {'_dd_curve': []} alone for no equity or a
\* first equity of 0, OverflowError out of the annualised return, else the
\* metrics
calc_metrics(pf, equities, dates) ==
    IF Len(equities) = 0 \/ RIsZero(equities[1])
    THEN [raised |-> FALSE, metrics |-> [dd_curve |-> <<>>]]
    ELSE IF AnnRetRaises(RDiv(equities[Len(equities)], equities[1]), Len(equities))
    THEN [raised |-> TRUE, metrics |-> [dd_curve |-> <<>>]]
    ELSE [raised |-> FALSE,
          metrics |-> MetricsOf(pf, equities, dates,
                                DdLoop(DdStart(equities, dates), equities, dates, 1),
                                DailyRets(equities, Len(equities)))]

(***************************************************************************)
(* BacktestEngine._build_trade_details, _calc_stock_performance and       *)
(* get_results.  No benchmark is ever set, so _calc_benchmark returns     *)
(* None; stock_performance is kept by ticker, without the order of its    *)
(* list.                                                                   *)
(***************************************************************************)
\* buy_amount = round(t.exec_price * t.shares)
BuyAmount(t) == round(RMul(t.exec_price, R(t.shares)))

\* last_price: the close of the ticker's last bar, 0 without one
LastClose(pd, ticker) ==
    IF ticker \in DOMAIN pd /\ pd[ticker] # <<>>
    THEN pd[ticker][Len(pd[ticker])].close
    ELSE 0

\* eval_amount: at the sell execution price for a closed record that has a
\* non-zero one, else at the last close
EvalAmount(t, pd) ==
    IF t.status = "closed" /\ t.exec_exit_price # None /\ ~RIsZero(t.exec_exit_price[1])
    THEN round(RMul(t.exec_exit_price[1], R(t.shares)))
    ELSE round(R(LastClose(pd, t.ticker) * t.shares))

\* return_pct
ReturnPct(t, buy_amount, eval_amount) ==
    IF t.status = "open" /\ buy_amount > 0
    THEN Some(round2(RMul(RSub(Rat(eval_amount, buy_amount), One), R(100))))
    ELSE IF t.status = "closed" THEN Some(t.pnl_pct) ELSE None

\* stock_accum[ticker] once the record t is added to it
AccAdded(accum, t, buy_amount) ==
    LET acc == Get(accum, t.ticker,
                   [total_shares |-> 0, total_cost |-> Zero, total_buy_with_cost |-> Zero])
    IN  [total_shares |-> acc.total_shares + t.shares,
         total_cost |-> RAdd(acc.total_cost, RMul(t.exec_price, R(t.shares))),
         total_buy_with_cost |->
             RAdd(acc.total_buy_with_cost, RAdd(R(buy_amount), t.entry_cost))]

\* the row of details for t, acc being stock_accum[ticker] with t added
TradeDetail(t, acc, buy_amount, eval_amount) ==
    [ticker |-> t.ticker, name |-> t.name, entry_date |-> t.entry_date,
     entry_price |-> t.entry_price, shares |-> t.shares, buy_amount |-> buy_amount,
     avg_price |-> IF acc.total_shares > 0
                   THEN round(RDiv(acc.total_cost, R(acc.total_shares))) ELSE 0,
     total_buy_amount |-> round(acc.total_buy_with_cost),
     eval_amount |-> eval_amount,
     eval_pnl |-> eval_amount - buy_amount,
     exit_date |-> t.exit_date,
     exit_price |-> IF t.exit_price # None /\ t.exit_price[1] # 0 THEN t.exit_price ELSE None,
     exit_cost |-> IF RIsZero(t.exit_cost) THEN 0 ELSE round(t.exit_cost),
     realized_pnl |-> IF t.status = "closed" THEN Some(round(t.pnl)) ELSE None,
     return_pct |-> ReturnPct(t, buy_amount, eval_amount),
     status |-> t.status]

\* stock_accum after the row of t: a closed record is taken out again and
\* the ticker dropped once it has no shares left
AccAfter(accum, t, acc, buy_amount) ==
    IF t.status # "closed" THEN DictSet(accum, t.ticker, acc)
    ELSE IF acc.total_shares - t.shares <= 0 THEN DictDel(accum, t.ticker)
    ELSE DictSet(accum, t.ticker,
                 [total_shares |-> acc.total_shares - t.shares,
                  total_cost |-> RSub(acc.total_cost, RMul(t.exec_price, R(t.shares))),
                  total_buy_with_cost |->
                      RSub(acc.total_buy_with_cost, RAdd(R(buy_amount), t.entry_cost))])

\* the loop of _build_trade_details from record k on
RECURSIVE TradeDetailsFrom(_, _, _, _, _)
TradeDetailsFrom(trades_, pd, k, accum, details) ==
    IF k > Len(trades_) THEN details
    ELSE TradeDetailsFrom(
             trades_, pd, k + 1,
             AccAfter(accum, trades_[k], AccAdded(accum, trades_[k], BuyAmount(trades_[k])),
                      BuyAmount(trades_[k])),
             Append(details,
                    TradeDetail(trades_[k],
                                AccAdded(accum, trades_[k], BuyAmount(trades_[k])),
                                BuyAmount(trades_[k]), EvalAmount(trades_[k], pd))))

build_trade_details(pf, pd) == TradeDetailsFrom(pf.trades, pd, 1, EmptyDict, <<>>)

\* _group_trades_by_stock: the rows of each ticker, in order
group_trades_by_stock(details) ==
    [t \in {details[k].ticker : k \in 1..Len(details)} |->
        LET Mine(d) == d.ticker = t IN SelectSeq(details, Mine)]

\* the lowest drawdown of the closes data[1..k] from their running peak
RECURSIVE ClosePeak(_, _)
ClosePeak(data, k) ==
    IF k = 1 THEN data[1].close
    ELSE IF data[k].close > ClosePeak(data, k - 1) THEN data[k].close
    ELSE ClosePeak(data, k - 1)
RECURSIVE StockMdd(_, _)
StockMdd(data, k) ==
    IF k = 0 THEN Zero
    ELSE IF RLt(DdOf(R(data[k].close), R(ClosePeak(data, k))), StockMdd(data, k - 1))
    THEN DdOf(R(data[k].close), R(ClosePeak(data, k)))
    ELSE StockMdd(data, k - 1)

\* _calc_stock_performance: a row for every ticker with two bars or more
calc_stock_performance(pd) ==
    [t \in {x \in DOMAIN pd : Len(pd[x]) >= 2} |->
        [return_pct |-> IF pd[t][1].close > 0
                        THEN round2(RMul(RSub(Rat(pd[t][Len(pd[t])].close, pd[t][1].close),
                                              One), R(100)))
                        ELSE Zero,
         mdd |-> round2(StockMdd(pd[t], Len(pd[t]))),
         start_price |-> pd[t][1].close,
         end_price |-> pd[t][Len(pd[t])].close]]

\* the result dictionary built around the metrics m
ResultsOf(pf, pd, m, details) ==
    [equity_curve |-> [k \in 1..Len(pf.equity_history) |->
                          [date |-> pf.equity_history[k].date,
                           equity |-> round(pf.equity_history[k].equity)]],
     drawdown_curve |-> m.dd_curve,
     metrics |-> [f \in (DOMAIN m) \ {"dd_curve"} |-> m[f]],
     cost_summary |-> get_cost_summary(pf),
     cost_config |-> pf.cost,
     stock_performance |-> calc_stock_performance(pd),
     benchmark |-> None,
     trades |-> details,
     trades_by_stock |-> group_trades_by_stock(details)]

\* the explicit marker of get_results for an empty equity history
NoDataError == [error |-> "no data"]

ResultsAfter(pf, pd, cm) ==
    IF cm.raised THEN [raised |-> TRUE, value |-> None]
    ELSE [raised |-> FALSE,
          value |-> ResultsOf(pf, pd, cm.metrics, build_trade_details(pf, pd))]

\* BacktestEngine.get_results: what it returns and whether it raised
get_results(pf, pd) ==
    IF pf.equity_history = <<>> THEN [raised |-> FALSE, value |-> NoDataError]
    ELSE ResultsAfter(pf, pd,
                      calc_metrics(pf,
                                   [k \in 1..Len(pf.equity_history) |->
                                       pf.equity_history[k].equity],
                                   [k \in 1..Len(pf.equity_history) |->
                                       pf.equity_history[k].date]))

(***************************************************************************)
(* BacktestEngine.get_daily_detail.  The rows are keyed by <<date, ticker>>: *)
(* the list has them by date and, within a date, in the order the tickers  *)
(* were added.  A bar carries its close alone, so open, high, low and      *)
(* volume are left out of a row.                                           *)
(***************************************************************************)
\* the records of buy_map[date][ticker] and sell_map[date][ticker], as
\* indexes into portfolio.trades
DayBuys(trades_, ticker, date) ==
    {k \in 1..Len(trades_) : trades_[k].ticker = ticker /\ trades_[k].entry_date = date}
DaySells(trades_, ticker, date) ==
    {k \in 1..Len(trades_) : trades_[k].ticker = ticker /\ trades_[k].exit_date = Some(date)}

\* holdings[ticker] += tr.shares for the records k.. bought on the date
RECURSIVE BuysApplied(_, _, _, _)
BuysApplied(trades_, buys, k, h) ==
    IF k > Len(trades_) THEN h
    ELSE BuysApplied(trades_, buys, k + 1, IF k \in buys THEN h + trades_[k].shares ELSE h)

\* holdings[ticker] -= tr.shares, popped at <= 0, for the records k.. sold
RECURSIVE SellsApplied(_, _, _, _)
SellsApplied(trades_, sells, k, h) ==
    IF k > Len(trades_) THEN h
    ELSE SellsApplied(trades_, sells, k + 1,
                      IF k \in sells /\ h - trades_[k].shares > 0 THEN h - trades_[k].shares
                      ELSE IF k \in sells THEN 0 ELSE h)

\* holdings.get(ticker, 0) once the loop has handled all_dates[1..i]
RECURSIVE HoldingsAt(_, _, _, _)
HoldingsAt(trades_, ticker, all_dates, i) ==
    IF i = 0 THEN 0
    ELSE SellsApplied(trades_, DaySells(trades_, ticker, all_dates[i]), 1,
             BuysApplied(trades_, DayBuys(trades_, ticker, all_dates[i]), 1,
                         HoldingsAt(trades_, ticker, all_dates, i - 1)))

\* action: 'BUY' over the buys, then 'SELL' if not action else 'BUY+SELL' for
\* each sell, then 'HOLD' for a held ticker without an order
DetailAction(buys, sells, h_shares) ==
    IF sells # {} THEN (IF buys = {} /\ Cardinality(sells) = 1 THEN "SELL" ELSE "BUY+SELL")
    ELSE IF buys # {} THEN "BUY"
    ELSE IF h_shares > 0 THEN "HOLD" ELSE ""

RECURSIVE SharesTraded(_, _, _)
SharesTraded(trades_, ks, k) ==
    IF k > Len(trades_) THEN 0
    ELSE (IF k \in ks THEN trades_[k].shares ELSE 0) + SharesTraded(trades_, ks, k + 1)

\* trade_cost: the entry costs of the buys and the exit costs of the sells
RECURSIVE DetailCost(_, _, _, _)
DetailCost(trades_, buys, sells, k) ==
    IF k > Len(trades_) THEN Zero
    ELSE RAdd(RAdd(IF k \in buys THEN trades_[k].entry_cost ELSE Zero,
                   IF k \in sells THEN trades_[k].exit_cost ELSE Zero),
              DetailCost(trades_, buys, sells, k + 1))

\* tr.exec_exit_price or 0
ExitPriceOr0(tr) == IF tr.exec_exit_price = None THEN Zero ELSE tr.exec_exit_price[1]
Highest(ks) == CHOOSE k \in ks : \A j \in ks : j <= k
\* exec_price: of the last sell of the day, else of the last buy
DetailExecPrice(trades_, buys, sells) ==
    IF sells # {} THEN ExitPriceOr0(trades_[Highest(sells)])
    ELSE IF buys # {} THEN trades_[Highest(buys)].exec_price ELSE Zero

\* eq_map.get(date, {}): the last snapshot of the date
EqSnaps(pf, date) == {k \in 1..Len(pf.equity_history) : pf.equity_history[k].date = date}
EqField(pf, snaps, equity_) ==
    IF snaps = {} THEN Zero
    ELSE IF equity_ THEN pf.equity_history[Highest(snaps)].equity
    ELSE pf.equity_history[Highest(snaps)].cash

DetailRow(pf, date, ticker, close_p, buys, sells, h_shares) ==
    [date |-> date, ticker |-> ticker, close |-> close_p,
     action |-> DetailAction(buys, sells, h_shares),
     shares_traded |-> SharesTraded(pf.trades, buys, 1) + SharesTraded(pf.trades, sells, 1),
     exec_price |-> round(DetailExecPrice(pf.trades, buys, sells)),
     trade_cost |-> round(DetailCost(pf.trades, buys, sells, 1)),
     holding_shares |-> h_shares,
     holding_value |-> h_shares * close_p,
     portfolio_equity |-> round(EqField(pf, EqSnaps(pf, date), TRUE)),
     portfolio_cash |-> round(EqField(pf, EqSnaps(pf, date), FALSE))]

\* a row is made for a ticker with a bar on the date and an action
DetailKeys(pf, pd, all_dates) ==
    {key \in (1..Len(all_dates)) \X DOMAIN pd :
        /\ PriceAt(pd, key[2], all_dates[key[1]]) # None
        /\ DetailAction(DayBuys(pf.trades, key[2], all_dates[key[1]]),
                        DaySells(pf.trades, key[2], all_dates[key[1]]),
                        HoldingsAt(pf.trades, key[2], all_dates, key[1])) # ""}

DetailRows(pf, pd, all_dates, keys) ==
    [key \in {<<all_dates[k[1]], k[2]>> : k \in keys} |->
        DetailRow(pf, key[1], key[2], PriceAt(pd, key[2], key[1])[1],
                  DayBuys(pf.trades, key[2], key[1]), DaySells(pf.trades, key[2], key[1]),
                  HoldingsAt(pf.trades, key[2], all_dates,
                             CHOOSE i \in 1..Len(all_dates) : all_dates[i] = key[1]))]

WithDates(pf, pd, all_dates) == DetailRows(pf, pd, all_dates, DetailKeys(pf, pd, all_dates))
\* all_dates is the one _build_dates gives: built by the run_* call, or here
\* when it is empty
get_daily_detail(pf, pd) == WithDates(pf, pd, build_dates(pd))

(***************************************************************************)
(* State.                                                                  *)
(***************************************************************************)
VARIABLES
    portfolio,   \* the Portfolio object
    last,        \* the last call made on it: its arguments and its result
    spent,       \* sum over the filled buys of exec_price * filled + commission
    received,    \* sum over the sells of exec_price * actual - commission - tax
    clock,       \* number of calls so far that reached the ledger's state
    clean,       \* no sell with a non-positive price or share count has
                 \* reached a position so far
    price_data,  \* BacktestEngine.price_data: ticker -> bars sorted by date
    run,         \* the run_* call in progress: its arguments, its locals and
                 \* its position in the loop over the dates
    current_data,    \* app.py: the screening data the web server shows
    backtest_state,  \* app.py: the state of the backtest the server shows
    threads,         \* app.py: every thread of the server: its position in
                     \* the code it runs and its locals
    daily_prices,    \* stock_db.py: the rows of the daily_prices table
    fetched          \* the last fetch_and_store call: its arguments, what
                     \* upstream held, the table before it and its result

\* the web server's state
web == <<current_data, backtest_state, threads>>
\* the price store's state
store == <<daily_prices, fetched>>
vars == <<portfolio, last, spent, received, clock, clean, price_data, run,
          web, store>>
\* what a call made directly on the ledger leaves alone
engine == <<price_data, run, web, store>>
\* what the engine's strategies leave alone
ledger == <<last, spent, received, clock, clean, web, store>>
\* the backtester's objects, which the web server's threads and the price
\* store leave alone in the specifications below
backtester == <<portfolio, last, spent, received, clock, clean, price_data,
                run>>

(***************************************************************************)
(* Bounds and inputs of the ledger specification.                          *)
(***************************************************************************)
\* calls that change the ledger (filled buys, sells of a held ticker,
\* sell_all, snapshot) in one run of the model
MaxCalls == 3

InitialCapitals == {100}
CostConfigs == {CostConfig(0, 10, 0), CostConfig(10, 10, 20)}
\* <<quote price, share count>> of an order, the invalid ones included
Orders == {<<0, 1>>, <<50, 0>>, <<50, -1>>, <<40, 1>>, <<50, 2>>}
\* price maps handed to sell_all, equity and snapshot
PriceMaps == {[t \in Tickers |-> 40], [t \in {"A"} |-> 50]}

\* A run_* call: its strategy and arguments (tickers, the window <<start_date,
\* end_date>> and the others in params), the window's dates, the valid
\* tickers, the index i of the next iteration of the loop over the dates and
\* the locals the loop carries from one date to the next.  status is "idle"
\* before the call, "running" inside the loop, "done" after the return and
\* "raised" after an exception left the call.
RunState(strategy, status, params, tickers, window, valid, dates) ==
    [strategy |-> strategy, status |-> status, params |-> params,
     tickers |-> tickers, window |-> window,
     valid |-> valid, dates |-> dates, i |-> 0,
     last_rebal |-> 0, peaks |-> EmptyDict, sold_day |-> EmptyDict,
     holding |-> EmptyDict, initial_buy_done |-> FALSE]

\* the engine before any run_* call
NoRun == RunState("none", "idle", EmptyDict, <<>>, <<None, None>>, <<>>, <<>>)

NoTicker == "-"
NoCall == [op |-> "init", ticker |-> NoTicker, price |-> 0, shares |-> 0,
           date |-> 0, ret |-> 0, raised |-> FALSE]
Call(op, ticker, price, shares, date, ret, raised) ==
    [op |-> op, ticker |-> ticker, price |-> price, shares |-> shares,
     date |-> date, ret |-> ret, raised |-> raised]

\* the date the caller stamps the next order with: every call that reaches
\* the ledger's state falls on a later date than the ones before it
Today == clock + 1

\* current_data as the module body of app.py leaves it
NoData ==
    [turn |-> {}, supply |-> {}, nps |-> {}, result |-> {},
     stats |-> EmptyDict, last_updated |-> None, status |-> "idle",
     error_msg |-> <<>>]
\* backtest_state as the module body of app.py leaves it
NoBacktest ==
    [status |-> "idle", results |-> None, error_msg |-> <<>>,
     progress |-> "", engine |-> None]
\* a thread: its position pc, the tables refresh_data fetched and the
\* exception on its way to the except clause; before is history kept for
\* the properties (no local of the code): the data current_data held when
\* the thread entered refresh_data
Thread(pc, data, e) == [pc |-> pc, data |-> data, e |-> e, before |-> None]
\* no thread of the server exists while the module is only imported
NoThreads == [id \in {} |-> Thread("new", None, None)]
ServerDown ==
    /\ current_data = NoData
    /\ backtest_state = NoBacktest
    /\ threads = NoThreads
\* the daily_prices table of a new database file, and no call made
NoRows == {}
NoFetch == [op |-> "init"]
StoreNew ==
    /\ daily_prices = NoRows
    /\ fetched = NoFetch

Init ==
    /\ \E capital \in InitialCapitals, cost \in CostConfigs :
          portfolio = Portfolio(R(capital), cost)
    /\ last = NoCall
    /\ spent = Zero
    /\ received = Zero
    /\ clock = 0
    /\ clean = TRUE
    /\ price_data = EmptyDict
    /\ run = NoRun
    /\ ServerDown
    /\ StoreNew

\* exec_price * filled + commission, from the shares a buy returned
BuyOutlay(cost, price, filled) ==
    LET gross == RMul(BuyExecPrice(cost, price), R(filled))
    IN  RAdd(gross, Commission(cost, gross))
\* exec_price * actual - commission - tax, from the shares a sell took
NetProceeds(cost, price, actual) ==
    LET gross == RMul(SellExecPrice(cost, price), R(actual))
    IN  RSub(RSub(gross, Commission(cost, gross)), Tax(cost, gross))

Buy(ticker, price, shares) ==
    /\ clock < MaxCalls
    /\ LET r == buy(portfolio, ticker, price, shares, Today)
       IN  /\ portfolio' = r.pf
           /\ last' = Call("buy", ticker, price, shares, Today, r.ret, r.raised)
           /\ spent' = RAdd(spent, BuyOutlay(portfolio.cost, price, r.ret))
           /\ clock' = IF r.ret > 0 THEN clock + 1 ELSE clock
    /\ UNCHANGED <<received, clean, engine>>

Sell(ticker, price, shares) ==
    /\ ticker \in Held(portfolio) => clock < MaxCalls
    /\ LET r == sell(portfolio, ticker, price, shares, Today)
           held == ticker \in Held(portfolio)
           actual == IF held THEN Min(shares, portfolio.positions[ticker].shares) ELSE 0
       IN  /\ portfolio' = r.pf
           /\ last' = Call("sell", ticker, price, shares, Today, r.ret, r.raised)
           /\ received' = RAdd(received, NetProceeds(portfolio.cost, price, actual))
           /\ clock' = IF held THEN clock + 1 ELSE clock
           /\ clean' = (clean /\ (held => price > 0 /\ shares > 0))
    /\ UNCHANGED <<spent, engine>>

\* what sell_all credits: the net proceeds of each held ticker with a mark
RECURSIVE SumProceeds(_, _, _)
SumProceeds(pf, todo, prices) ==
    IF todo = {} THEN Zero
    ELSE LET t == CHOOSE x \in todo : TRUE
         IN  RAdd(IF t \in DOMAIN prices
                  THEN NetProceeds(pf.cost, prices[t], pf.positions[t].shares)
                  ELSE Zero,
                  SumProceeds(pf, todo \ {t}, prices))

SellAll(prices) ==
    /\ clock < MaxCalls
    /\ portfolio' = sell_all(portfolio, prices, Today)
    /\ last' = Call("sell_all", NoTicker, 0, 0, Today, 0, FALSE)
    /\ received' = RAdd(received, SumProceeds(portfolio, Held(portfolio), prices))
    /\ clock' = clock + 1
    /\ UNCHANGED <<spent, clean, engine>>

EquityCall(prices) ==
    /\ last' = Call("equity", NoTicker, 0, 0, Today, equity(portfolio, prices), FALSE)
    /\ UNCHANGED <<portfolio, spent, received, clock, clean, engine>>

Snapshot(prices) ==
    /\ clock < MaxCalls
    /\ portfolio' = snapshot(portfolio, Today, prices)
    /\ last' = Call("snapshot", NoTicker, 0, 0, Today, 0, FALSE)
    /\ clock' = clock + 1
    /\ UNCHANGED <<spent, received, clean, engine>>

CostSummary ==
    /\ last' = Call("get_cost_summary", NoTicker, 0, 0, Today,
                    get_cost_summary(portfolio), FALSE)
    /\ UNCHANGED <<portfolio, spent, received, clock, clean, engine>>

Next ==
    \/ \E t \in Tickers, o \in Orders : Buy(t, o[1], o[2])
    \/ \E t \in Tickers, o \in Orders : Sell(t, o[1], o[2])
    \/ \E prices \in PriceMaps : SellAll(prices)
    \/ \E prices \in PriceMaps : EquityCall(prices)
    \/ \E prices \in PriceMaps : Snapshot(prices)
    \/ CostSummary

Spec == Init /\ [][Next]_vars

(***************************************************************************)
(* The ledger under valid orders of one or two shares: lots larger than   *)
(* the sells that take from them.                                          *)
(***************************************************************************)
LotOrders == {<<40, 1>>, <<40, 2>>}

NextLots ==
    \/ \E t \in Tickers, o \in LotOrders : Buy(t, o[1], o[2])
    \/ \E t \in Tickers, o \in LotOrders : Sell(t, o[1], o[2])

SpecLots == Init /\ [][NextLots]_vars

(***************************************************************************)
(* The engine's specification: price data is loaded into a fresh engine,  *)
(* then one run_* call is made and followed through its loop, one date    *)
(* per step.                                                               *)
(***************************************************************************)
\* the trading dates are 1..NDates
NDates == 3
Dates == 1..NDates

RunCapitals == {1000}
RunCostConfigs == {CostConfig(0, 0, 0), CostConfig(10, 10, 20)}

\* closes by date: flat, up then down through a 25% drop, through zero, and
\* down 20% on the second date to stay there
PricePaths ==
    { [d \in Dates |-> 100],
      [d \in Dates |-> IF d = 1 THEN 100 ELSE IF d = 2 THEN 120 ELSE 90],
      [d \in Dates |-> IF d = 2 THEN 0 ELSE 100],
      [d \in Dates |-> IF d = 1 THEN 100 ELSE 80] }
\* a ticker listed on the last date but one at 1 that closes at 300 the day
\* after
JumpSeries == {Bar(NDates - 1, 1), Bar(NDates, 300)}

\* the rows handed to add_price_data: ticker A trades on every date, ticker
\* B on any subset of the dates
\* the sets of dates ticker B trades on: from some date on (or never), and
\* every date but the second
Presences == {s..NDates : s \in 1..(NDates + 1)} \cup {Dates \ {2}}
SeriesOf(ticker) ==
    IF ticker = "A"
    THEN {{Bar(d, path[d]) : d \in Dates} : path \in PricePaths}
    ELSE UNION {{{Bar(d, path[d]) : d \in S} : path \in PricePaths} : S \in Presences}

TickerLists == {<<"A", "B">>, <<"B">>}
\* <<start_date, end_date>>
Windows == {<<None, None>>, <<Some(2), None>>, <<None, Some(0)>>}
Periods == {1, 2}
\* the lists signal_map holds for one date
\* the signals argument of run_custom
SignalFeeds ==
    { <<>>,
      <<Signal(1, "A", "buy", Some(Rat(1, 2))), Signal(1, "B", "buy", None),
        Signal(3, "A", "sell", None)>>,
      <<Signal(2, "B", "buy", Some(One)), Signal(2, "B", "sell", None),
        Signal(2, "A", "buy", None)>>,
      <<Signal(1, "A", "sell", None), Signal(2, "A", "buy", Some(One)),
        Signal(2, "B", "buy", Some(One)), Signal(3, "B", "sell", None)>>,
      <<Signal(1, "B", "buy", Some(Rat(1, 2))), Signal(2, "B", "buy", Some(Rat(1, 2))),
        Signal(3, "B", "sell", None), Signal(3, "A", "buy", Some(Rat(1, 2)))>> }
StopParams ==
    { [lookback |-> 1, stop_pct |-> -10, cooldown |-> 0, reentry |-> TRUE],
      [lookback |-> 2, stop_pct |-> -10, cooldown |-> 1, reentry |-> TRUE],
      [lookback |-> 2, stop_pct |-> -10, cooldown |-> 0, reentry |-> FALSE] }
MaParams ==
    { [ma_period |-> 2, rebalance_period |-> 1],
      [ma_period |-> 2, rebalance_period |-> 2] }
CompositeParams ==
    { [ma_period |-> 2, lookback |-> 1, stop_pct |-> -10, cooldown |-> 0,
       rebalance_period |-> 1],
      [ma_period |-> 2, lookback |-> 2, stop_pct |-> -10, cooldown |-> 1,
       rebalance_period |-> 2] }

InitRun ==
    /\ \E capital \in RunCapitals, cost \in RunCostConfigs :
          portfolio = Portfolio(R(capital), cost)
    /\ last = NoCall
    /\ spent = Zero
    /\ received = Zero
    /\ clock = 0
    /\ clean = TRUE
    /\ price_data = EmptyDict
    /\ run = NoRun
    /\ ServerDown
    /\ StoreNew

AddPriceData(ticker, data) ==
    /\ run.status = "idle"
    /\ price_data' = add_price_data(price_data, ticker, data)
    /\ UNCHANGED <<portfolio, run, ledger>>

\* the head of a run_* that goes on without a valid ticker
BeginRun_NoValidCheck(strategy, params, tickers, window) ==
    LET all_dates == build_dates(price_data)
        dates == IF all_dates = <<>> THEN <<>>
                 ELSE IF strategy = "custom" THEN all_dates
                 ELSE WindowDates(all_dates, window[1], window[2])
    IN  RunState(strategy, IF dates = <<>> THEN "done" ELSE "running", params,
                 tickers, window, ValidTickers(price_data, tickers), dates)

\* The head of every run_*: _build_dates, the window, the valid tickers and
\* the early returns.  run_custom takes no tickers and no window: it loops
\* over all_dates.
BeginRun(strategy, params, tickers, window) ==
    LET all_dates == build_dates(price_data)
        dates == IF all_dates = <<>> THEN <<>>
                 ELSE IF strategy = "custom" THEN all_dates
                 ELSE WindowDates(all_dates, window[1], window[2])
        valid == ValidTickers(price_data, tickers)
        returns == \/ dates = <<>>
                   \/ strategy # "custom" /\ valid = <<>>
    IN  RunState(strategy, IF returns THEN "done" ELSE "running", params,
                 tickers, window, valid, dates)

\* the date of the iteration the run is at, and the run after that iteration
RunDate == run.dates[run.i + 1]
Advance(r) ==
    [r EXCEPT !.i = @ + 1,
              !.status = IF r.i + 1 = Len(r.dates) THEN "done" ELSE "running"]

WithLocals(r, st) ==
    [r EXCEPT !.peaks = st.peaks, !.sold_day = st.sold_day,
              !.holding = st.holding, !.initial_buy_done = st.initial_buy_done]

\* mutant of EndOfDay: the snapshot is taken of the ledger as it was before
\* the day's trading
EndOfDay_SnapshotFirst(st, prices, r) ==
    /\ portfolio' = IF st.raised THEN st.pf
                    ELSE [st.pf EXCEPT !.equity_history =
                             Append(@, EquitySnapshot(portfolio, RunDate,
                                                      equity(portfolio, prices)))]
    /\ run' = IF st.raised THEN [WithLocals(r, st) EXCEPT !.status = "raised"]
              ELSE Advance(WithLocals(r, st))

\* the end of an iteration that left the day's trading in st: the snapshot
\* and the next date, or the exception that leaves the call
EndOfDay(st, prices, r) ==
    /\ portfolio' = IF st.raised THEN st.pf ELSE snapshot(st.pf, RunDate, prices)
    /\ run' = IF st.raised THEN [WithLocals(r, st) EXCEPT !.status = "raised"]
              ELSE Advance(WithLocals(r, st))

\* r is the run after the head of run_equal_weight
StartEqualWeight(r) ==
    /\ run' = r
    /\ portfolio' = IF r.status = "running"
                    THEN EqualWeightBuys(portfolio, price_data, r.valid, 1,
                                         RDiv(portfolio.initial_capital, R(Len(r.valid))),
                                         r.dates[1])
                    ELSE portfolio

RunEqualWeight(tickers, window) ==
    /\ run.status = "idle"
    /\ StartEqualWeight(BeginRun("equal_weight", EmptyDict, tickers, window))
    /\ UNCHANGED <<price_data, ledger>>

\* mutant of DayEqualWeight: every date buys again with the cash left
DayEqualWeight_TopUp ==
    /\ run.strategy = "equal_weight" /\ run.status = "running"
    /\ portfolio' = snapshot(EqualWeightBuys(portfolio, price_data, run.valid, 1,
                                             RDiv(portfolio.cash, R(Len(run.valid))),
                                             RunDate),
                             RunDate, last_known_prices(price_data, RunDate))
    /\ run' = Advance(run)
    /\ UNCHANGED <<price_data, ledger>>

DayEqualWeight ==
    /\ run.strategy = "equal_weight" /\ run.status = "running"
    /\ portfolio' = snapshot(portfolio, RunDate, last_known_prices(price_data, RunDate))
    /\ run' = Advance(run)
    /\ UNCHANGED <<price_data, ledger>>

RunRebalance(tickers, window, period) ==
    /\ run.status = "idle"
    /\ run' = [BeginRun("rebalance", [period |-> period], tickers, window)
                 EXCEPT !.last_rebal = -period]
    /\ UNCHANGED <<portfolio, price_data, ledger>>

\* `if i - last_rebal >= period`
Due(r, period) == r.i - r.last_rebal >= period
Checked(r, period) == [r EXCEPT !.last_rebal = IF Due(r, period) THEN r.i ELSE @]

DayRebalance ==
    /\ run.strategy = "rebalance" /\ run.status = "running"
    /\ portfolio' = snapshot(IF Due(run, run.params.period)
                             THEN RebalanceDay(portfolio, run.valid,
                                               last_known_prices(price_data, RunDate),
                                               RunDate)
                             ELSE portfolio,
                             RunDate, last_known_prices(price_data, RunDate))
    /\ run' = Advance(Checked(run, run.params.period))
    /\ UNCHANGED <<price_data, ledger>>

RunCustom(signals) ==
    /\ run.status = "idle"
    /\ run' = BeginRun("custom", [signals |-> signals], <<>>, <<None, None>>)
    /\ UNCHANGED <<portfolio, price_data, ledger>>

DayCustom ==
    /\ run.strategy = "custom" /\ run.status = "running"
    /\ EndOfDay(CustomSignals(Locals(portfolio, run),
                              SignalsOn(run.params.signals, RunDate), 1,
                              last_known_prices(price_data, RunDate), RunDate,
                              Cardinality(DOMAIN price_data)),
                last_known_prices(price_data, RunDate), run)
    /\ UNCHANGED <<price_data, ledger>>

\* holding[t] = False and sold_day[t] = -cooldown - 1 for t in valid
StopLocals(r, cooldown) ==
    [r EXCEPT !.holding = [t \in {r.valid[k] : k \in 1..Len(r.valid)} |-> FALSE],
              !.sold_day = [t \in {r.valid[k] : k \in 1..Len(r.valid)} |-> -cooldown - 1]]

RunVolatilityTrailingStop(tickers, window, params) ==
    /\ run.status = "idle"
    /\ run' = StopLocals(BeginRun("volatility_trailing_stop", params, tickers, window),
                         params.cooldown)
    /\ UNCHANGED <<portfolio, price_data, ledger>>

DayVolatilityTrailingStop ==
    /\ run.strategy = "volatility_trailing_stop" /\ run.status = "running"
    /\ EndOfDay(VolatilityDay(Locals(portfolio, run), price_data, run.valid,
                              last_known_prices(price_data, RunDate), run.i,
                              RunDate, run.params),
                last_known_prices(price_data, RunDate), run)
    /\ UNCHANGED <<price_data, ledger>>

RunMaFilter(tickers, window, params) ==
    /\ run.status = "idle"
    /\ run' = [BeginRun("ma_filter", params, tickers, window)
                 EXCEPT !.last_rebal = -params.rebalance_period]
    /\ UNCHANGED <<portfolio, price_data, ledger>>

\* last_check is kept in the run's last_rebal
DayMaFilter ==
    /\ run.strategy = "ma_filter" /\ run.status = "running"
    /\ EndOfDay(IF Due(run, run.params.rebalance_period)
                THEN MaFilterDay(Locals(portfolio, run), price_data, run.valid,
                                 last_known_prices(price_data, RunDate), RunDate,
                                 run.params.ma_period)
                ELSE Locals(portfolio, run),
                last_known_prices(price_data, RunDate),
                Checked(run, run.params.rebalance_period))
    /\ UNCHANGED <<price_data, ledger>>

RunComposite(tickers, window, params) ==
    /\ run.status = "idle"
    /\ run' = [StopLocals(BeginRun("composite", params, tickers, window),
                          params.cooldown)
                 EXCEPT !.last_rebal = -params.rebalance_period]
    /\ UNCHANGED <<portfolio, price_data, ledger>>

DayComposite ==
    /\ run.strategy = "composite" /\ run.status = "running"
    /\ EndOfDay(CompositeDay(Locals(portfolio, run), price_data, run.valid,
                             last_known_prices(price_data, RunDate), run.i, RunDate,
                             run.params, Due(run, run.params.rebalance_period)),
                last_known_prices(price_data, RunDate),
                Checked(run, run.params.rebalance_period))
    /\ UNCHANGED <<price_data, ledger>>

\* what a report leaves in `last`
Returned(op, r) == last' = Call(op, NoTicker, 0, 0, Today, r.value, r.raised)

\* get_results emptying the equity history it reads
GetResults_Consuming ==
    /\ run.status \in {"done", "raised"}
    /\ Returned("get_results", get_results(portfolio, price_data))
    /\ portfolio' = [portfolio EXCEPT !.equity_history = <<>>]
    /\ UNCHANGED <<spent, received, clock, clean, engine>>

\* get_results once the run_* call has returned or raised
GetResults ==
    /\ run.status \in {"done", "raised"}
    /\ Returned("get_results", get_results(portfolio, price_data))
    /\ UNCHANGED <<portfolio, spent, received, clock, clean, engine>>

\* get_daily_detail once the run_* call has returned or raised
GetDailyDetail ==
    /\ run.status \in {"done", "raised"}
    /\ Returned("get_daily_detail",
                [value |-> get_daily_detail(portfolio, price_data), raised |-> FALSE])
    /\ UNCHANGED <<portfolio, spent, received, clock, clean, engine>>

NextRun ==
    \/ \E t \in Tickers : \E data \in SeriesOf(t) : AddPriceData(t, data)
    \/ AddPriceData("B", JumpSeries)
    \/ \E tickers \in TickerLists, w \in Windows : RunEqualWeight(tickers, w)
    \/ DayEqualWeight
    \/ \E tickers \in TickerLists, w \in Windows, period \in Periods :
          RunRebalance(tickers, w, period)
    \/ DayRebalance
    \/ \E signals \in SignalFeeds : RunCustom(signals)
    \/ DayCustom
    \/ \E tickers \in TickerLists, w \in Windows, params \in StopParams :
          RunVolatilityTrailingStop(tickers, w, params)
    \/ DayVolatilityTrailingStop
    \/ \E tickers \in TickerLists, w \in Windows, params \in MaParams :
          RunMaFilter(tickers, w, params)
    \/ DayMaFilter
    \/ \E tickers \in TickerLists, w \in Windows, params \in CompositeParams :
          RunComposite(tickers, w, params)
    \/ DayComposite
    \/ GetResults
    \/ GetDailyDetail

SpecRun == InitRun /\ [][NextRun]_vars

(***************************************************************************)
(* run_equal_weight alone, with the capital of the documented scenario    *)
(* next to the small one.                                                  *)
(***************************************************************************)
EqualWeightCapitals == {1000, 1000000}

InitEqualWeight ==
    /\ \E capital \in EqualWeightCapitals, cost \in RunCostConfigs :
          portfolio = Portfolio(R(capital), cost)
    /\ last = NoCall
    /\ spent = Zero
    /\ received = Zero
    /\ clock = 0
    /\ clean = TRUE
    /\ price_data = EmptyDict
    /\ run = NoRun
    /\ ServerDown
    /\ StoreNew

NextEqualWeight ==
    \/ \E t \in Tickers : \E data \in SeriesOf(t) : AddPriceData(t, data)
    \/ \E tickers \in TickerLists, w \in Windows : RunEqualWeight(tickers, w)
    \/ DayEqualWeight

SpecEqualWeight == InitEqualWeight /\ [][NextEqualWeight]_vars

(***************************************************************************)
(* Properties of the ledger.                                               *)
(***************************************************************************)
trades == portfolio.trades
positions == portfolio.positions
Counters(pf) == <<pf.total_slippage_cost, pf.total_commission_cost, pf.total_tax_cost>>
SharesOf(pf, t) == IF t \in Held(pf) THEN pf.positions[t].shares ELSE 0
Statuses(pf) == [i \in 1..Len(pf.trades) |-> pf.trades[i].status]

\* C1: cash is the initial capital minus what the filled buys cost plus the
\* net proceeds of the sells, after any sequence of calls; equity, snapshot
\* and get_cost_summary add to neither sum, so they leave cash alone.
C1_CashConservation ==
    portfolio.cash = RAdd(RSub(portfolio.initial_capital, spent), received)

C1_Witness ==
    /\ last.op = "snapshot"
    /\ ~RIsZero(spent)
    /\ ~RIsZero(received)
    /\ Len(portfolio.equity_history) = 1

\* the bars of a ticker dated on or before a date, and the close of the
\* latest of them
BarsUpTo(t, date) ==
    IF t \in DOMAIN price_data
    THEN {k \in 1..Len(price_data[t]) : price_data[t][k].date <= date}
    ELSE {}
LastKnown(t, date) ==
    price_data[t][CHOOSE k \in BarsUpTo(t, date) :
                     \A j \in BarsUpTo(t, date) :
                        price_data[t][j].date <= price_data[t][k].date].close
RECURSIVE MarkedValue(_, _)
MarkedValue(todo, date) ==
    IF todo = {} THEN Zero
    ELSE LET t == CHOOSE x \in todo : TRUE
         IN  RAdd(RMul(R(positions[t].shares), R(LastKnown(t, date))),
                  MarkedValue(todo \ {t}, date))
LastSnapshot == portfolio.equity_history[Len(portfolio.equity_history)]
Snapshotted ==
    /\ run.status \in {"running", "done"}
    /\ Len(portfolio.equity_history) > 0

\* C2: in a run of any of the six strategies on a fresh engine, every
\* snapshot is taken on the run's current date with every held ticker having
\* a bar on or before that date, its equity is the cash plus the shares of
\* each open position at the ticker's last known close, and its invested is
\* the equity minus the cash; the average-price fallback is never used.
C2_SnapshotEquity ==
    Snapshotted =>
        /\ Len(portfolio.equity_history) = run.i
        /\ LastSnapshot.date = run.dates[run.i]
        /\ \A t \in DOMAIN positions : BarsUpTo(t, LastSnapshot.date) # {}
        /\ LastSnapshot.cash = portfolio.cash
        /\ LastSnapshot.equity =
              RAdd(portfolio.cash, MarkedValue(DOMAIN positions, LastSnapshot.date))
        /\ LastSnapshot.invested = RSub(LastSnapshot.equity, LastSnapshot.cash)

\* a snapshot on a date without a bar of a held ticker, whose last close is
\* not its average price
C2_Witness ==
    /\ Snapshotted
    /\ \E t \in DOMAIN positions :
          /\ PriceAt(price_data, t, LastSnapshot.date) = None
          /\ positions[t].shares > 0
          /\ positions[t].avg_price # R(LastKnown(t, LastSnapshot.date))

\* C3: as long as every sell that reached a position had a positive price
\* and a positive share count, cash is never negative: no buy spends more
\* than the cash there is.
C3_CashNonNegative == clean => RGe(portfolio.cash, Zero)

C3_Witness ==
    /\ clean
    /\ last.op = "buy"
    /\ last.ret > 0
    /\ last.ret < last.shares
    /\ ~RIsZero(received)

\* the largest n in 0..shares whose cost exec_price * n * (1 + commission_pct/100)
\* is within the cash (0 when not even one share is)
LargestAffordable(pf, price, shares) ==
    LET ok == {n \in 1..shares :
                  RLe(RMul(RMul(BuyExecPrice(pf.cost, price), R(n)),
                           RAdd(One, Pct(pf.cost.commission_pct))), pf.cash)}
    IN  IF ok = {} THEN 0 ELSE CHOOSE n \in ok : \A m \in ok : m <= n

\* C4: a valid buy whose cost at the requested size exceeds the cash fills
\* the largest affordable number of shares; when that is 0 it returns 0 and
\* changes nothing.  With capital 100, price 50, commission 10 % and a
\* request of 2 it fills 1 share and leaves cash 45.
C4_ShrinkToAffordable ==
    [][(/\ last'.op = "buy"
        /\ last'.price > 0
        /\ last'.shares > 0
        /\ RGt(BuyOutlay(portfolio.cost, last'.price, last'.shares), portfolio.cash))
       => /\ last'.ret = LargestAffordable(portfolio, last'.price, last'.shares)
          /\ last'.ret = 0 => portfolio' = portfolio
          /\ (/\ portfolio = Portfolio(R(100), CostConfig(0, 10, 0))
              /\ last'.price = 50
              /\ last'.shares = 2)
             => last'.ret = 1 /\ portfolio'.cash = R(45)]_vars

C4_Witness ==
    /\ last.op = "buy"
    /\ last.price = 50
    /\ last.shares = 2
    /\ last.ret = 1
    /\ portfolio.cost = CostConfig(0, 10, 0)
    /\ portfolio.cash = R(45)
    /\ Len(trades) = 1

\* C5: a buy with a non-positive quote price or share count returns 0 and
\* leaves the whole ledger as it was.
C5_BuyRejectsInvalid ==
    [][(last'.op = "buy" /\ (last'.price <= 0 \/ last'.shares <= 0))
       => last'.ret = 0 /\ portfolio' = portfolio]_vars

C5_Witness ==
    /\ last.op = "buy"
    /\ last.price <= 0
    /\ last.ret = 0
    /\ Len(trades) > 0
    /\ Held(portfolio) # {}

\* C6: a sell of a held ticker with a non-positive quote price or share
\* count returns 0, raises nothing and leaves cash, the position's shares,
\* every record's status and the cost counters as they were.
C6_SellRejectsInvalid ==
    [][(/\ last'.op = "sell"
        /\ last'.ticker \in Held(portfolio)
        /\ (last'.price <= 0 \/ last'.shares <= 0))
       => /\ last'.ret = 0
          /\ ~last'.raised
          /\ portfolio'.cash = portfolio.cash
          /\ SharesOf(portfolio', last'.ticker) = SharesOf(portfolio, last'.ticker)
          /\ Statuses(portfolio') = Statuses(portfolio)
          /\ Counters(portfolio') = Counters(portfolio)]_vars

\* shares of ticker t bought so far: the sum of its records' share counts
RECURSIVE BoughtUpTo(_, _, _)
BoughtUpTo(tr, t, k) ==
    IF k = 0 THEN 0
    ELSE (IF tr[k].ticker = t THEN tr[k].shares ELSE 0) + BoughtUpTo(tr, t, k - 1)
TotalBought(pf, t) == BoughtUpTo(pf.trades, t, Len(pf.trades))

\* C7: a sell of n shares of a position of h shares fills min(n, h) and
\* leaves h - min(n, h); every position holds more than 0 shares and never
\* more than were bought of its ticker.
C7_NoOversell ==
    [][/\ (last'.op = "sell" /\ last'.ticker \in Held(portfolio))
          => LET h == SharesOf(portfolio, last'.ticker)
             IN  /\ last'.ret = Min(last'.shares, h)
                 /\ SharesOf(portfolio', last'.ticker) = h - Min(last'.shares, h)
       /\ \A t \in Held(portfolio') :
             /\ portfolio'.positions[t].shares > 0
             /\ portfolio'.positions[t].shares <= TotalBought(portfolio', t)]_vars

\* C8: a sell of a ticker without a position returns 0 and changes nothing,
\* open records of that ticker left from earlier lots included.
C8_SellWithoutPosition ==
    [][(last'.op = "sell" /\ last'.ticker \notin Held(portfolio))
       => last'.ret = 0 /\ ~last'.raised /\ portfolio' = portfolio]_vars

C8_Witness ==
    /\ last.op = "sell"
    /\ last.ticker \notin Held(portfolio)
    /\ last.price > 0
    /\ last.shares > 0
    /\ \E i \in 1..Len(trades) :
          trades[i].ticker = last.ticker /\ trades[i].status = "open"

\* the fields of a record set at its creation
Entry(r) == <<r.ticker, r.name, r.entry_date, r.entry_price, r.exec_price,
              r.shares, r.entry_cost>>

\* C9: a buy that fills appends exactly one open record; no step removes or
\* reorders records; a status only goes from open to closed, and a closed
\* record is never modified again.
C9_TradeLifecycle ==
    [][/\ Len(trades') = Len(trades)
                         + (IF last'.op = "buy" /\ last'.ret > 0 THEN 1 ELSE 0)
       /\ (last'.op = "buy" /\ last'.ret > 0)
          => /\ trades'[Len(trades')].status = "open"
             /\ trades'[Len(trades')].ticker = last'.ticker
             /\ trades'[Len(trades')].shares = last'.ret
       /\ \A i \in 1..Len(trades) :
             /\ Entry(trades'[i]) = Entry(trades[i])
             /\ trades[i].status = "closed" => trades'[i] = trades[i]
             /\ trades'[i].status \in {trades[i].status, "closed"}]_vars

C9_Witness ==
    /\ last.op = "sell"
    /\ last.ret > 0
    /\ \E i \in 1..Len(trades) :
          /\ trades[i].ticker = last.ticker
          /\ trades[i].status = "closed"
          /\ trades[i].exit_date[1] < last.date

\* C10: a sell of a held ticker that returns completes the newest record of
\* that ticker that is still open, stamping it with the sell's date and
\* price, and leaves every other record as it was.
C10_LifoLotMatching ==
    [][(last'.op = "sell" /\ last'.ticker \in Held(portfolio) /\ ~last'.raised)
       => \A i \in 1..Len(trades) :
             IF /\ trades[i].ticker = last'.ticker
                /\ trades[i].status = "open"
                /\ \A j \in (i + 1)..Len(trades) :
                      ~(trades[j].ticker = last'.ticker /\ trades[j].status = "open")
             THEN /\ trades'[i].status = "closed"
                  /\ trades'[i].exit_date = Some(last'.date)
                  /\ trades'[i].exit_price = Some(last'.price)
             ELSE trades'[i] = trades[i]]_vars

C10_Witness ==
    /\ last.op = "sell"
    /\ Len(trades) = 2
    /\ trades[1].ticker = last.ticker /\ trades[1].status = "open"
    /\ trades[2].ticker = last.ticker /\ trades[2].status = "closed"
    /\ trades[2].exit_date = Some(last.date)

\* C11: every sell that fills more than 0 shares closes a record of its
\* ticker that was open before the sell, stamping it with the sell's date
\* and the realized pnl of the shares sold, so no filled sell is left without
\* a trace in the records.
C11_SellLeavesTrace ==
    [][(last'.op = "sell" /\ last'.ret > 0)
       => \E i \in 1..Len(trades) :
             /\ trades[i].ticker = last'.ticker
             /\ trades[i].status = "open"
             /\ trades'[i].status = "closed"
             /\ trades'[i].exit_date = Some(last'.date)
             /\ trades'[i].pnl =
                   R(round(RSub(NetProceeds(portfolio.cost, last'.price, last'.ret),
                              RMul(portfolio.positions[last'.ticker].avg_price,
                                   R(last'.ret)))))]_vars

(***************************************************************************)
(* Properties of the engine's runs.                                        *)
(***************************************************************************)
\* the union of all tickers' trading dates, and the dates of it inside the
\* run's [start, end] window
AllBarDates ==
    UNION {{price_data[t][k].date : k \in 1..Len(price_data[t])} : t \in DOMAIN price_data}
WindowSet ==
    {d \in AllBarDates :
        /\ run.window[1] = None \/ run.window[1][1] <= d
        /\ run.window[2] = None \/ d <= run.window[2][1]}
\* the requested tickers that are in the price index with at least one bar
Loaded(t) == t \in DOMAIN price_data /\ Len(price_data[t]) > 0
RequestedLoaded == {run.tickers[k] : k \in {j \in 1..Len(run.tickers) : Loaded(run.tickers[j])}}
\* the run_* call was made, and it had dates and tickers to simulate
Called == run.strategy # "none"
HasData == WindowSet # {} /\ (run.strategy = "custom" \/ RequestedLoaded # {})
Ended == run.status \in {"done", "raised"}
history == portfolio.equity_history
SnapshotDates == {history[k].date : k \in 1..Len(history)}

\* C12: after a run of any strategy that had data to simulate, the snapshot
\* dates are strictly increasing and there is exactly one snapshot for each
\* date of the window, traded or not.
C12_OneSnapshotPerDate ==
    (Called /\ Ended /\ HasData)
    => /\ \A k \in 1..(Len(history) - 1) : history[k].date < history[k + 1].date
       /\ SnapshotDates = WindowSet
       /\ Len(history) = Cardinality(WindowSet)

\* records i of the step's new trade list that the step created, closed
Created(i) == i > Len(trades)
ClosedNow(i) ==
    /\ trades'[i].status = "closed"
    /\ Created(i) \/ trades[i].status = "open"

\* C13: in every strategy the snapshot of a date is taken after all trading
\* of that date: a record is created or closed only with a date later than
\* every snapshot taken before, a step that appends a snapshot trades only on
\* the snapshot's date, and the snapshot's cash is the cash the step's
\* orders leave.
C13_SnapshotAfterTrading ==
    [][/\ \A i \in 1..Len(trades') : \A k \in 1..Len(history) :
             /\ Created(i) => history[k].date < trades'[i].entry_date
             /\ ClosedNow(i) => history[k].date < trades'[i].exit_date[1]
       /\ Len(portfolio'.equity_history) > Len(history)
          => LET snap == portfolio'.equity_history[Len(portfolio'.equity_history)]
             IN  /\ Len(portfolio'.equity_history) = Len(history) + 1
                 /\ snap.cash = portfolio'.cash
                 /\ \A i \in 1..Len(trades') :
                       /\ Created(i) => trades'[i].entry_date = snap.date
                       /\ ClosedNow(i) => trades'[i].exit_date[1] = snap.date]_vars

\* a day that both closed a record and created one, snapshotted
C13_Witness ==
    /\ Snapshotted
    /\ Len(history) >= 2
    /\ \E i \in 1..Len(trades) : trades[i].entry_date = LastSnapshot.date
    /\ \E i \in 1..Len(trades) : trades[i].exit_date = Some(LastSnapshot.date)
    /\ LastSnapshot.cash # history[Len(history) - 1].cash

\* the first date of the run's window
FirstDate == CHOOSE d \in WindowSet : \A e \in WindowSet : d <= e
FlatAt100(t) ==
    /\ Loaded(t)
    /\ \A k \in 1..Len(price_data[t]) : price_data[t][k].close = 100
    /\ {price_data[t][k].date : k \in 1..Len(price_data[t])} = AllBarDates
\* the documented scenario: capital 1,000,000, zero costs, tickers A and B
\* flat at 100 on every date
EqualWeightScenario ==
    /\ portfolio.initial_capital = R(1000000)
    /\ portfolio.cost = CostConfig(0, 0, 0)
    /\ run.tickers = <<"A", "B">>
    /\ run.window = <<None, None>>
    /\ FlatAt100("A") /\ FlatAt100("B")
\* what holds of the ledger all through a run of run_equal_weight
EqualWeightHeld ==
    /\ \A i \in 1..Len(trades) :
          trades[i].entry_date = FirstDate /\ trades[i].status = "open"
    /\ \A k \in 1..Len(history) : history[k].cash = portfolio.cash
    /\ EqualWeightScenario
       => /\ DOMAIN positions = {"A", "B"}
          /\ positions["A"].shares = 5000 /\ positions["B"].shares = 5000
          /\ portfolio.cash = Zero
          /\ \A k \in 1..Len(history) :
                history[k].cash = Zero /\ history[k].equity = R(1000000)
          /\ run.status = "done" => Len(history) = Cardinality(AllBarDates)

\* C14: run_equal_weight places orders only on the first date of the
\* window and never sells: every record is entered on the first date and
\* stays open, and the steps that append a snapshot leave the cash, the
\* positions and the records alone, so that cash and share counts are the
\* same in every snapshot.  With capital 1,000,000, two tickers flat at 100
\* and zero costs, 5,000 shares of each are held, cash is 0 and equity is
\* 1,000,000 in every snapshot.
C14_EqualWeightBuysOnce ==
    [][(run'.strategy = "equal_weight" /\ HasData')
       => /\ EqualWeightHeld'
          /\ Len(portfolio'.equity_history) > Len(history)
             => /\ portfolio'.cash = portfolio.cash
                /\ portfolio'.positions = positions
                /\ portfolio'.trades = trades]_vars

C14_Witness ==
    /\ run.strategy = "equal_weight" /\ run.status = "done"
    /\ EqualWeightScenario
    /\ Len(history) = 3
    /\ Len(trades) = 2 /\ trades[1].shares = 5000 /\ trades[2].shares = 5000
    /\ history[3].equity = R(1000000) /\ history[3].cash = Zero

\* the records of ticker t
RecordsOf(t) == {i \in 1..Len(trades) : trades[i].ticker = t}
\* n is floor(alloc / unit)
IsFloorOf(n, alloc, unit) ==
    /\ RLe(RMul(R(n), unit), alloc)
    /\ RGt(RMul(R(n + 1), unit), alloc)
\* the cost of one share of t at its last known close on the first date
FirstUnitCost(t) ==
    RMul(BuyExecPrice(portfolio.cost, LastKnown(t, FirstDate)),
         RAdd(One, Pct(portfolio.cost.commission_pct)))
EqualAlloc == RDiv(portfolio.initial_capital, R(Cardinality(RequestedLoaded)))
Sizeable(t) ==
    /\ BarsUpTo(t, FirstDate) # {}
    /\ LastKnown(t, FirstDate) > 0
    /\ RGe(EqualAlloc, FirstUnitCost(t))

\* C15: at the end of a run of run_equal_weight every valid ticker whose
\* share count floor((initialCapital / N) / (buyExecPrice * (1 +
\* commissionPct / 100))) is positive has been bought exactly once, with
\* that many shares, and has an open position.
C15_EqualWeightBuysEach ==
    (run.strategy = "equal_weight" /\ run.status = "done" /\ HasData)
    => \A t \in RequestedLoaded :
          Sizeable(t)
          => /\ t \in DOMAIN positions
             /\ Cardinality(RecordsOf(t)) = 1
             /\ IsFloorOf(positions[t].shares, EqualAlloc, FirstUnitCost(t))

\* the cost of one share of t bought at its last known close on date
UnitCostOn(t, date) ==
    RMul(BuyExecPrice(portfolio.cost, LastKnown(t, date)),
         RAdd(One, Pct(portfolio.cost.commission_pct)))
PricedOn(t, date) == BarsUpTo(t, date) # {} /\ LastKnown(t, date) > 0
\* what the positions pos cost when each was bought at its last known close
RECURSIVE OutlayOf(_, _, _)
OutlayOf(pos, todo, date) ==
    IF todo = {} THEN Zero
    ELSE LET t == CHOOSE x \in todo : TRUE
         IN  RAdd(RMul(R(pos[t].shares), UnitCostOn(t, date)),
                  OutlayOf(pos, todo \ {t}, date))
\* the date of the iteration a running run is at
Now == run.dates[run.i + 1]
\* a step of the loop over the dates of the given strategy
DayOf(strategy) ==
    /\ run.strategy = strategy /\ run.status = "running"
    /\ run' # run
LedgerUnchanged ==
    /\ portfolio'.cash = portfolio.cash
    /\ portfolio'.positions = positions
    /\ portfolio'.trades = trades
\* the positions after a rebalancing day that had cash `pool` after its
\* sells: floor((pool / N) / unit cost) shares of each priced target ticker
RebalancedTo(pos, pool, date) ==
    /\ DOMAIN pos \subseteq RequestedLoaded
    /\ \A t \in RequestedLoaded :
          IF PricedOn(t, date)
             /\ RGe(RDiv(pool, R(Cardinality(RequestedLoaded))), UnitCostOn(t, date))
          THEN /\ t \in DOMAIN pos
               /\ IsFloorOf(pos[t].shares, RDiv(pool, R(Cardinality(RequestedLoaded))),
                            UnitCostOn(t, date))
          ELSE t \notin DOMAIN pos

\* C16: run_rebalance rebalances exactly on the day indices 0, period,
\* 2 * period, ...: on such a day every position held is sold in full (its
\* record is closed on that date), then each priced target ticker is bought
\* with the allocation (equity after the sells) / N; on every other day the
\* cash, the positions and the records are unchanged.
C16_RebalanceCadence ==
    [][DayOf("rebalance")
       => IF run.i % run.params.period = 0
          THEN /\ \A i \in 1..Len(trades) :
                     trades[i].status = "open"
                     => /\ trades'[i].status = "closed"
                        /\ trades'[i].exit_date = Some(Now)
               /\ \A i \in (Len(trades) + 1)..Len(portfolio'.trades) :
                     /\ portfolio'.trades[i].entry_date = Now
                     /\ portfolio'.trades[i].status = "open"
               /\ RebalancedTo(portfolio'.positions,
                               RAdd(portfolio'.cash,
                                    OutlayOf(portfolio'.positions,
                                             DOMAIN portfolio'.positions, Now)),
                               Now)
          ELSE LedgerUnchanged]_vars

\* the second rebalancing day of a run with period 2, after an idle day
C16_Witness ==
    /\ run.strategy = "rebalance" /\ run.params.period = 2 /\ run.i = 3
    /\ Len(history) = 3
    /\ history[1].cash = history[2].cash
    /\ \E i \in 1..Len(trades) :
          trades[i].status = "closed" /\ trades[i].exit_date = Some(LastSnapshot.date)
    /\ \E i \in 1..Len(trades) :
          trades[i].status = "open" /\ trades[i].entry_date = LastSnapshot.date
    /\ Cardinality(DOMAIN positions) = 2

\* the signals the feed carries for the date the run is at, in list order
SignalsNow ==
    LET ks == {k \in 1..Len(run.params.signals) : run.params.signals[k].date = Now}
        Nth(n) == CHOOSE k \in ks : Cardinality({j \in ks : j < k}) = n - 1
    IN  [n \in 1..Cardinality(ks) |-> run.params.signals[Nth(n)]]
\* total equity of a ledger pf on a date: cash plus the positions at their
\* last known closes
RECURSIVE ValueOf(_, _, _)
ValueOf(pos, todo, date) ==
    IF todo = {} THEN Zero
    ELSE LET t == CHOOSE x \in todo : TRUE
         IN  RAdd(RMul(R(pos[t].shares), R(LastKnown(t, date))),
                  ValueOf(pos, todo \ {t}, date))
EquityOf(pf, date) == RAdd(pf.cash, ValueOf(pf.positions, DOMAIN pf.positions, date))
WeightOf(sig) ==
    IF sig.weight # None THEN sig.weight[1]
    ELSE Rat(1, IF DOMAIN price_data = {} THEN 1 ELSE Cardinality(DOMAIN price_data))
\* floor(alloc / unit) for alloc >= 0 and unit >= 1
FloorOf(alloc, unit) == CHOOSE n \in 0..RFloor(alloc) : IsFloorOf(n, alloc, unit)
\* the ledger after one signal is applied as documented: a buy requests
\* floor(equity * weight / unit cost) shares of a priced ticker (nothing can
\* be bought at a price of 0), a sell of a held ticker sells all its shares
SignalApplied(pf, sig, date) ==
    IF sig.action = "buy" /\ PricedOn(sig.ticker, date)
    THEN buy(pf, sig.ticker, LastKnown(sig.ticker, date),
             FloorOf(RMul(EquityOf(pf, date), WeightOf(sig)), UnitCostOn(sig.ticker, date)),
             date).pf
    ELSE IF sig.action = "sell" /\ sig.ticker \in DOMAIN pf.positions
    THEN sell(pf, sig.ticker, LastKnown(sig.ticker, date),
              pf.positions[sig.ticker].shares, date).pf
    ELSE pf
RECURSIVE SignalsApplied(_, _, _, _)
SignalsApplied(pf, sigs, k, date) ==
    IF k > Len(sigs) THEN pf
    ELSE SignalsApplied(SignalApplied(pf, sigs[k], date), sigs, k + 1, date)

\* C17: each date of run_custom applies the signals it carries, all of them
\* and in list order: a buy signal requests floor(equity x
\* weight / (buyExecPrice x (1 + commissionPct / 100))) shares with the total
\* equity of that moment, a sell signal of a held ticker sells the whole
\* position; a date without signals leaves cash, positions and records
\* unchanged and appends one snapshot.
C17_CustomSignals ==
    [][DayOf("custom")
       => /\ portfolio'.cash = SignalsApplied(portfolio, SignalsNow, 1, Now).cash
          /\ portfolio'.positions = SignalsApplied(portfolio, SignalsNow, 1, Now).positions
          /\ portfolio'.trades = SignalsApplied(portfolio, SignalsNow, 1, Now).trades
          /\ SignalsNow = <<>>
             => /\ LedgerUnchanged
                /\ Len(portfolio'.equity_history) = Len(history) + 1
          /\ \A k \in 1..Len(SignalsNow) :
                (/\ SignalsNow[k].action = "sell"
                 /\ \A j \in (k + 1)..Len(SignalsNow) :
                       SignalsNow[j].ticker # SignalsNow[k].ticker)
                => SignalsNow[k].ticker \notin DOMAIN portfolio'.positions]_vars

(***************************************************************************)
(* Properties of the trailing stop and its cooldown (strategies 4 and 6). *)
(***************************************************************************)
StopDay == DayOf("volatility_trailing_stop") \/ DayOf("composite")
\* the tickers the loop's `holding` marks as held when the day starts
HeldBefore == {t \in DOMAIN run.holding : run.holding[t]}
Max(a, b) == IF a >= b THEN a ELSE b
\* the running peak of a held ticker once the day's price is seen
PeakWith(t) == Max(run.peaks[t], LastKnown(t, Now))
\* (p / peak - 1) * 100 as a number
DrawdownPct(t) == RMul(RSub(Rat(LastKnown(t, Now), PeakWith(t)), One), R(100))
\* the step closes the open record of t on its date at the day's price
ForceSold(t) ==
    \E i \in 1..Len(trades) :
       /\ trades[i].ticker = t /\ trades[i].status = "open"
       /\ trades'[i].status = "closed"
       /\ trades'[i].exit_date = Some(Now)
       /\ trades'[i].exit_price = Some(LastKnown(t, Now))
\* the step leaves the position and the open record of t as they were
Untouched(t) ==
    /\ t \in Held(portfolio') /\ portfolio'.positions[t] = positions[t]
    /\ \A i \in 1..Len(trades) : trades[i].ticker = t => trades'[i] = trades[i]
\* the composite strategy's own sale of a held ticker below its average
SoldBelowMa(t) ==
    /\ run.strategy = "composite"
    /\ Due(run, run.params.rebalance_period)
    /\ MaSide(price_data, t, Now, run.params.ma_period) = "below"
\* the documented run: one ticker priced 100, 120, 90 under a -10% stop
StopScenario ==
    /\ run.strategy = "volatility_trailing_stop"
    /\ run.tickers = <<"B">> /\ run.dates = <<1, 2, 3>>
    /\ run.params.stop_pct = -10
    /\ Loaded("B") /\ Len(price_data["B"]) = 3
    /\ price_data["B"][1].close = 100
    /\ price_data["B"][2].close = 120
    /\ price_data["B"][3].close = 90

\* C18: on every simulated day of strategies 4 and 6, for each held ticker
\* with price p the running peak is first raised to max(peak, p), the peak
\* having started at the entry price; if (p / peak - 1) * 100 <= stop_pct the
\* whole position is sold that day at p and the ticker is not held when the
\* day ends, otherwise the stop check places no order for it.  In the
\* documented run the peak is 120 after the second day and the position is
\* sold on the third.
C18_TrailingStop ==
    [][StopDay =>
         /\ \A t \in HeldBefore :
               /\ run'.peaks[t] = PeakWith(t)
               /\ IF RLe(DrawdownPct(t), R(run.params.stop_pct))
                  THEN ForceSold(t) /\ t \notin Held(portfolio')
                  ELSE Untouched(t) \/ (SoldBelowMa(t) /\ ForceSold(t))
         /\ \A t \in Held(portfolio') \ Held(portfolio) :
               run'.peaks[t] = LastKnown(t, Now)
         /\ (StopScenario /\ run.i = 1) => run'.peaks["B"] = 120
         /\ (StopScenario /\ run.i = 2) => ForceSold("B")]_vars

\* the record of t closed on the date of day index s, this step's sales
\* included
SoldOnIndex(t, s) ==
    \E i \in 1..Len(trades') :
       /\ trades'[i].ticker = t /\ trades'[i].status = "closed"
       /\ trades'[i].exit_date = Some(run.dates[s + 1])
\* the step opens a record of t
BoughtNow(t) == \E i \in 1..Len(trades') : Created(i) /\ trades'[i].ticker = t
ValidSet == {run.valid[k] : k \in 1..Len(run.valid)}
\* the composite strategy buys only tickers above their moving average
EntryAllowed(t) ==
    run.strategy = "composite"
    => MaSide(price_data, t, Now, run.params.ma_period) = "above"

\* C19: in strategies 4 and 6 a ticker whose position was sold out on day
\* index s is not bought on any day index d with s <= d <= s + cooldown, the
\* day of its exit included; on day index 0 no ticker is held back by the
\* cooldown: every ticker with a positive price that the strategy lets in
\* is bought.
C19_Cooldown ==
    [][StopDay =>
         \A t \in ValidSet :
            /\ (\E s \in 0..run.i :
                   SoldOnIndex(t, s) /\ run.i <= s + run.params.cooldown)
               => ~BoughtNow(t)
            /\ (run.i = 0 /\ PricedOn(t, Now) /\ EntryAllowed(t))
               => BoughtNow(t)]_vars

\* a run with a one-day cooldown that stopped a ticker out on day index 1
\* and passed day index 2 with the ticker priced, cash at hand and no buy
C19_Witness ==
    /\ run.strategy \in {"volatility_trailing_stop", "composite"}
    /\ run.status = "done" /\ run.i = 3
    /\ run.params.cooldown = 1
    /\ RGt(portfolio.cash, R(100))
    /\ \E t \in ValidSet :
          /\ t \notin Held(portfolio)
          /\ PricedOn(t, run.dates[3])
          /\ \E i \in 1..Len(trades) :
                /\ trades[i].ticker = t
                /\ trades[i].exit_date = Some(run.dates[2])

\* t has a closed record once the step is over
SoldBy(t) ==
    \E i \in 1..Len(trades') : trades'[i].ticker = t /\ trades'[i].status = "closed"
NoReentryDay ==
    DayOf("volatility_trailing_stop") /\ ~run.params.reentry

\* C20: in run_volatility_trailing_stop with reentry = False a ticker that
\* the stop has sold is never bought again in the run, while a ticker that
\* was never sold is still bought for the first time: on a day that starts
\* with nothing held and at least half the capital in cash and does not
\* raise, every never-sold ticker with a positive price is bought, also
\* after day index 0.
C20_NoReentry ==
    [][NoReentryDay =>
         \A t \in ValidSet :
            /\ SoldBy(t) => ~BoughtNow(t)
            /\ (/\ ~SoldBy(t) /\ PricedOn(t, Now)
                /\ Held(portfolio) = {} /\ run'.status # "raised"
                /\ RGe(RMul(portfolio.cash, R(2)), portfolio.initial_capital))
               => BoughtNow(t)]_vars

\* a run without reentry in which one ticker was stopped out and stays out
\* at a positive price while another, whose first bar came later, was bought
\* for the first time after that exit
C20_Witness ==
    /\ run.strategy = "volatility_trailing_stop" /\ ~run.params.reentry
    /\ run.status = "done" /\ run.i >= 1
    /\ \E t, u \in ValidSet :
          /\ t # u
          /\ t \notin Held(portfolio) /\ PricedOn(t, run.dates[run.i])
          /\ u \in Held(portfolio)
          /\ price_data[u][1].date > run.dates[1]
          /\ \E i, j \in 1..Len(trades) :
                /\ trades[i].ticker = t /\ trades[i].status = "closed"
                /\ trades[j].ticker = u /\ trades[j].status = "open"
                /\ trades[j].entry_date >= trades[i].exit_date[1]

(***************************************************************************)
(* Properties of the moving-average filter (strategies 5 and 6).          *)
(***************************************************************************)
\* the closes of t up to the day's date
ClosesNow(t) == ClosesUpTo(price_data, t, Now)
\* the mean of the last n of these closes
MeanOfLast(t, n) ==
    RDiv(RSum([k \in 1..n |-> R(ClosesNow(t)[Len(ClosesNow(t)) - n + k])], n), R(n))
\* t has at least n closes and its last close is not above their mean
NotAboveMa(t, n) ==
    /\ Len(ClosesNow(t)) >= n
    /\ RLe(R(ClosesNow(t)[Len(ClosesNow(t))]), MeanOfLast(t, n))
ShortHistory(t, n) == Len(ClosesNow(t)) \in 1..(n - 1)
\* day index i is on the cadence 0, period, 2 * period, ...
OnCadence(i, period) == i % period = 0

\* C21: in run_ma_filter the check runs exactly on day indices 0,
\* rebalance_period, 2 * rebalance_period, ...: on any other day no order is
\* placed, and after a check day no ticker with ma_period closes or more whose
\* last close is not above their mean is held; a ticker with between 1 and
\* ma_period - 1 closes counts as above and, when held, is still held after
\* the check.
C21_MaFilterCadence ==
    [][DayOf("ma_filter") =>
         IF OnCadence(run.i, run.params.rebalance_period)
         THEN \A t \in ValidSet :
                 /\ NotAboveMa(t, run.params.ma_period) => t \notin Held(portfolio')
                 /\ (ShortHistory(t, run.params.ma_period) /\ t \in Held(portfolio))
                    => t \in Held(portfolio')
         ELSE LedgerUnchanged]_vars

\* a finished run with period 2 whose third day sold a ticker out
C21_Witness ==
    /\ run.strategy = "ma_filter" /\ run.status = "done"
    /\ run.params.rebalance_period = 2
    /\ Len(history) = 3
    /\ \E i \in 1..Len(trades) :
          /\ trades[i].entry_date = run.dates[1]
          /\ trades[i].exit_date = Some(run.dates[3])
          /\ trades[i].ticker \notin Held(portfolio)

\* the check day of run_ma_filter the step is
MaCheckDay ==
    DayOf("ma_filter") /\ OnCadence(run.i, run.params.rebalance_period)
\* the tickers the check sells out, and the buy set
MaSoldOut == {t \in Held(portfolio) : NotAboveMa(t, run.params.ma_period)}
MaBuySet ==
    {t \in ValidSet : ClosesNow(t) # <<>> /\ ~NotAboveMa(t, run.params.ma_period)}
\* what the sale of the sold-out positions brings in
RECURSIVE ProceedsOf(_)
ProceedsOf(todo) ==
    IF todo = {} THEN Zero
    ELSE LET t == CHOOSE x \in todo : TRUE
         IN  RAdd(NetOf(portfolio.cost,
                        RMul(SellExecPrice(portfolio.cost, LastKnown(t, Now)),
                             R(positions[t].shares))),
                  ProceedsOf(todo \ {t}))
\* T: the equity after the below-MA sells over the size of the buy set
MaTarget ==
    RDiv(RAdd(RAdd(portfolio.cash, ProceedsOf(MaSoldOut)),
              ValueOf(positions, Held(portfolio) \ MaSoldOut, Now)),
         R(Cardinality(MaBuySet)))
\* T - V for a ticker of the buy set, and the band 2 * price
MaGap(t) ==
    RSub(MaTarget, R(SharesOf(portfolio, t) * LastKnown(t, Now)))
MaBand(t) == R(2 * LastKnown(t, Now))
SharesAdded(t) == SharesOf(portfolio', t) - SharesOf(portfolio, t)
NoOrderFor(t) ==
    /\ SharesAdded(t) = 0
    /\ \A i \in 1..Len(trades') :
          trades'[i].ticker = t => i <= Len(trades) /\ trades'[i] = trades[i]

InCooldown(t) ==
    \E s \in 0..run.i : SoldOnIndex(t, s) /\ run.i <= s + run.params.cooldown

\* C23: in run_composite the trailing-stop check runs on every day: a held
\* ticker that has fallen from its peak by more than the stop is sold
\* whatever the day; a ticker is bought only on a day index 0,
\* rebalance_period, 2 * rebalance_period, ..., only when it is above its
\* moving average or has too few closes for one, only when it is not held
\* and only out of its cooldown, so a position is never added to.
C23_CompositeEntries ==
    [][DayOf("composite") =>
         /\ \A t \in HeldBefore :
               RLt(DrawdownPct(t), R(run.params.stop_pct)) => ForceSold(t)
         /\ \A t \in ValidSet :
               /\ SharesAdded(t) > 0 => BoughtNow(t) /\ t \notin Held(portfolio)
               /\ BoughtNow(t)
                  => /\ OnCadence(run.i, run.params.rebalance_period)
                     /\ ClosesNow(t) # <<>>
                     /\ ~NotAboveMa(t, run.params.ma_period)
                     /\ t \notin Held(portfolio)
                     /\ ~InCooldown(t)]_vars

\* a finished run with period 2 that stopped a ticker out on day index 1,
\* off the cadence, and bought another on day index 2
C23_Witness ==
    /\ run.strategy = "composite" /\ run.status = "done"
    /\ run.params.rebalance_period = 2 /\ Len(run.dates) = 3
    /\ \E i, j \in 1..Len(trades) :
          /\ trades[i].exit_date = Some(run.dates[2])
          /\ trades[j].entry_date = run.dates[3]
          /\ trades[j].ticker # trades[i].ticker

(***************************************************************************)
(* Properties of the reports.                                              *)
(***************************************************************************)
\* get_results has returned a full report, with metrics
Reported ==
    /\ last.op = "get_results" /\ ~last.raised
    /\ "metrics" \in DOMAIN last.ret
    /\ "mdd" \in DOMAIN last.ret.metrics
EquityAt(k) == history[k].equity
\* max(equity(0..k))
RECURSIVE HighestEquity(_)
HighestEquity(k) ==
    IF k = 1 THEN EquityAt(1)
    ELSE IF RGt(EquityAt(k), HighestEquity(k - 1)) THEN EquityAt(k)
    ELSE HighestEquity(k - 1)
\* (equity(k) / max(equity(0..k)) - 1) * 100
DrawdownOfDay(k) == RMul(RSub(RDiv(EquityAt(k), HighestEquity(k)), One), R(100))
DdEntry(k) == last.ret.drawdown_curve[k].dd
DdBounds ==
    /\ Len(last.ret.drawdown_curve) = Len(history)
    /\ DdEntry(1) = Zero
    /\ \A k \in 1..Len(history) : RLe(DdEntry(k), Zero)
    /\ \A k \in 1..Len(history) : RLe(last.ret.metrics.mdd, DdEntry(k))
    /\ \E k \in 1..Len(history) : last.ret.metrics.mdd = DdEntry(k)

\* C24 as stated: for an equity history with a positive first value every
\* entry of the drawdown curve is <= 0, the first is 0, each entry is
\* (equity(t) / max(equity(0..t)) - 1) * 100, and the reported MDD is the
\* least entry of the curve.
C24_DrawdownExact ==
    Reported
    => /\ DdBounds
       /\ \A k \in 1..Len(history) : DdEntry(k) = DrawdownOfDay(k)

\* C24, amended: the same, each entry being that value rounded to two
\* decimals.
C24_DrawdownRounded ==
    Reported
    => /\ DdBounds
       /\ \A k \in 1..Len(history) : DdEntry(k) = round2(DrawdownOfDay(k))

\* a report whose curve falls, recovers in part and has its low before the
\* last day
C24_Witness ==
    /\ Reported /\ Len(history) = 3
    /\ RLt(DdEntry(2), DdEntry(3)) /\ RLt(DdEntry(3), Zero)
    /\ last.ret.metrics.mdd = DdEntry(2)

\* the cost summary as get_cost_summary or get_results has returned it
CostsReported ==
    \/ last.op = "get_cost_summary"
    \/ last.op = "get_results" /\ ~last.raised /\ "cost_summary" \in DOMAIN last.ret
SummaryReturned ==
    IF last.op = "get_cost_summary" THEN last.ret ELSE last.ret.cost_summary
CostsNonNegative ==
    CostsReported
    => SummaryReturned.slippage >= 0 /\ SummaryReturned.commission >= 0
       /\ SummaryReturned.tax >= 0
CostsAddUp ==
    CostsReported
    => SummaryReturned.slippage + SummaryReturned.commission + SummaryReturned.tax
       = SummaryReturned.total

\* C25: after any sequence of orders with non-negative cost percentages the
\* slippage, commission and tax of the cost summary are each >= 0 and their
\* sum is the summary's total.
C25_CostSummary == CostsNonNegative /\ CostsAddUp

(***************************************************************************)
(* Runs without data.                                                      *)
(***************************************************************************)
\* the dates of the bars added
BarDates == UNION {{price_data[t][k].date : k \in 1..Len(price_data[t])} : t \in DOMAIN price_data}
NoPriceData == BarDates = {}
\* no bar is dated within [start_date, end_date] of the call, an end left
\* out being the last date and a start left out the first
WindowEmpty ==
    /\ run.strategy # "custom"
    /\ \A d \in BarDates :
          \/ run.window[1] # None /\ d < run.window[1][1]
          \/ run.window[2] # None /\ d > run.window[2][1]
\* no requested ticker has a bar
NoneRequested ==
    /\ run.strategy # "custom"
    /\ \A k \in 1..Len(run.tickers) :
          run.tickers[k] \notin DOMAIN price_data \/ price_data[run.tickers[k]] = <<>>

\* C26: when no price data was added, or the window holds no trading date,
\* or no requested ticker has a bar, a run_* call returns with no trade
\* record, no snapshot and the cash at the initial capital, and get_results
\* then returns the no-data marker without raising.
C26_NoDataRun ==
    Called /\ (NoPriceData \/ WindowEmpty \/ NoneRequested)
    => /\ run.status = "done"
       /\ portfolio.trades = <<>> /\ history = <<>>
       /\ portfolio.cash = portfolio.initial_capital
       /\ last.op = "get_results" => ~last.raised /\ last.ret = NoDataError

\* get_results after a run whose window ends before the first bar of a
\* requested ticker
C26_Witness ==
    /\ Called /\ WindowEmpty /\ ~NoPriceData /\ ~NoneRequested
    /\ last.op = "get_results" /\ last.ret = NoDataError

\* C27: with non-negative closes, the close 0 included, no run_* call and no
\* report after it lets an exception out.
C27_NoException == run.status # "raised" /\ ~last.raised

(***************************************************************************)
(* Degenerate statistics.                                                  *)
(***************************************************************************)
\* the daily return into snapshot k, where the snapshot before it is positive
ReturnInto(k) == RSub(RDiv(EquityAt(k), EquityAt(k - 1)), One)
Counted == {k \in 2..Len(history) : RGt(EquityAt(k - 1), Zero)}
ReturnsAllEqual == \A j, k \in Counted : ReturnInto(j) = ReturnInto(k)
Degenerate == Len(history) \in {1, 2} \/ ReturnsAllEqual
NoneClosed == \A k \in 1..Len(portfolio.trades) : portfolio.trades[k].status # "closed"
ResultsCalled == last.op = "get_results" /\ history # <<>>

\* C28: with one snapshot, with two, or with all daily returns equal,
\* get_results raises nothing and reports volatility 0 and sharpe 0; with no
\* closed trade record it reports a win rate of 0.
C28_DegenerateStatistics ==
    /\ ResultsCalled /\ Degenerate
       => /\ ~last.raised
          /\ last.ret.metrics.volatility = Zero /\ last.ret.metrics.sharpe = Zero
    /\ ResultsCalled /\ NoneClosed /\ ~last.raised
       => last.ret.metrics.win_rate = Zero

(***************************************************************************)
(* Reporting reads and does not write.                                     *)
(***************************************************************************)
\* a step in which a report was made
ReportStep == last'.op # last.op /\ last'.op \in {"get_results", "get_daily_detail"}
LedgerKept ==
    /\ portfolio'.cash = portfolio.cash
    /\ portfolio'.positions = portfolio.positions
    /\ portfolio'.trades = portfolio.trades
    /\ portfolio'.equity_history = portfolio.equity_history
    /\ portfolio'.total_slippage_cost = portfolio.total_slippage_cost
    /\ portfolio'.total_commission_cost = portfolio.total_commission_cost
    /\ portfolio'.total_tax_cost = portfolio.total_tax_cost
\* get_results called again on what the first call has left
SecondCall(r) == last'.ret = r.value /\ last'.raised = r.raised
SameAgain == last'.op = "get_results" => SecondCall(get_results(portfolio', price_data'))

DayTraded == run.dates[run.i]
DayIndex(all_dates) == CHOOSE i \in 1..Len(all_dates) : all_dates[i] = DayTraded
AfterTrading == Called /\ run.i >= 1 /\ run.status \in {"running", "done"}
TradedOn(t, date) == DayBuys(trades, t, date) \cup DaySells(trades, t, date) # {}
HasBar(t, date) == PriceAt(price_data, t, date) # None
RowHolding(t, all_dates) == HoldingsAt(trades, t, all_dates, DayIndex(all_dates))
RowEmitted(t, all_dates) ==
    /\ HasBar(t, DayTraded)
    /\ DetailAction(DayBuys(trades, t, DayTraded), DaySells(trades, t, DayTraded),
                    RowHolding(t, all_dates)) # ""
AuditedWith(all_dates) ==
    \A t \in DOMAIN price_data :
       /\ RowEmitted(t, all_dates) => RowHolding(t, all_dates) = SharesOf(portfolio, t)
       /\ HasBar(t, DayTraded) /\ (t \in Held(portfolio) \/ TradedOn(t, DayTraded))
          => RowEmitted(t, all_dates)
\* the rows of the last date in the table get_daily_detail has returned
ReportAudited ==
    \A key \in DOMAIN last.ret :
       key[1] = DayTraded => last.ret[key].holding_shares = SharesOf(portfolio, key[2])

\* C31: in the table of get_daily_detail the holding_shares of (d, t) is the
\* share count of t's position after the trading of d, 0 without one, and
\* every ticker with a bar on d that was held or traded on d has a row.
C31_AuditTable ==
    /\ AfterTrading => AuditedWith(build_dates(price_data))
    /\ AfterTrading /\ run.status = "done" /\ last.op = "get_daily_detail" => ReportAudited

\* C32: after sell_all the ledger holds no position.
C32_SellAllSellsAll == last.op = "sell_all" => Held(portfolio) = {}

(***************************************************************************)
(* The average price of a position.                                        *)
(***************************************************************************)
AvgOf(pf, t) == pf.positions[t].avg_price
\* the step is a buy of last'.ret > 0 shares of last'.ticker
BuyFilledStep == last'.op = "buy" /\ clock' = clock + 1
FillPrice == BuyExecPrice(portfolio.cost, last'.price)
\* (oldAvg * oldShares + execPrice * s) / (oldShares + s)
Merged(t, s) ==
    RDiv(RAdd(RMul(AvgOf(portfolio, t), R(SharesOf(portfolio, t))), RMul(FillPrice, R(s))),
         R(SharesOf(portfolio, t) + s))
BuyAverages(t) ==
    /\ SharesOf(portfolio', t) = SharesOf(portfolio, t) + last'.ret
    /\ AvgOf(portfolio', t) = IF t \in Held(portfolio) THEN Merged(t, last'.ret) ELSE FillPrice
\* a sell that leaves part of the position
PartialSellStep ==
    /\ last'.op = "sell" /\ clock' = clock + 1
    /\ last'.ticker \in Held(portfolio) \cap Held(portfolio')
\* the records of t, none of them closed: t was bought and never sold
BuysOf(pf, t) == {k \in 1..Len(pf.trades) : pf.trades[k].ticker = t}
BoughtOnly(pf, t) ==
    /\ t \in Held(pf)
    /\ \A k \in BuysOf(pf, t) : pf.trades[k].status = "open"
RECURSIVE PaidFor(_, _, _)
PaidFor(pf, ks, k) ==
    IF k > Len(pf.trades) THEN Zero
    ELSE RAdd(IF k \in ks
              THEN RMul(BuyExecPrice(pf.cost, pf.trades[k].entry_price), R(pf.trades[k].shares))
              ELSE Zero,
              PaidFor(pf, ks, k + 1))
\* the share-weighted mean of the execution prices of the buys of t
WeightedMean(pf, t) ==
    RDiv(PaidFor(pf, BuysOf(pf, t), 1), R(SharesTraded(pf.trades, BuysOf(pf, t), 1)))
MeanOfBuys(pf) == \A t \in Tickers : BoughtOnly(pf, t) => AvgOf(pf, t) = WeightedMean(pf, t)

\* C33: a buy filling s shares into a position makes its shares old + s and
\* its average (oldAvg x old + execPrice x s) / (old + s), a first buy makes
\* the average execPrice, a partial sell leaves the average alone, and a
\* position that was only bought has the share-weighted mean of the
\* execution prices of its buys as its average.
C33_PositionAveraging ==
    [][/\ BuyFilledStep => BuyAverages(last'.ticker)
       /\ PartialSellStep =>
             AvgOf(portfolio', last'.ticker) = AvgOf(portfolio, last'.ticker)
       /\ MeanOfBuys(portfolio')]_vars

\* a position filled twice at different prices
C33_Witness ==
    /\ last.op = "buy" /\ last.ret > 0
    /\ BoughtOnly(portfolio, last.ticker)
    /\ \E j, k \in BuysOf(portfolio, last.ticker) :
          portfolio.trades[j].entry_price # portfolio.trades[k].entry_price
    /\ AvgOf(portfolio, last.ticker) # BuyExecPrice(portfolio.cost, last.price)

(***************************************************************************)
(* app.py: the web server.  Its threads are the main thread, one thread    *)
(* per request, the scheduler's thread running the daily_refresh job and   *)
(* the worker threads the requests start.  A `with data_lock:` or `with    *)
(* bt_lock:` block holds assignments only and is one step; everything      *)
(* between two such blocks runs outside the locks and interleaves freely.  *)
(***************************************************************************)
\* the three crawled tables, each as the set of the 종목명 of its rows
Tables(turn, supply, nps) == [turn |-> turn, supply |-> supply, nps |-> nps]
\* what fetch_all_data returns when it returns
FetchResults ==
    { Tables({}, {}, {}), Tables({"X"}, {"X"}, {}), Tables({"Y"}, {}, {}),
      Tables({"X", "Y"}, {"X"}, {"X"}) }

\* calculate_scores: one entry per stock with its 종합점수, and the counts;
\* the order of the list, the rank and the copied columns are left out
ScoreOf(stock, turn, supply, nps) ==
    (IF stock \in turn THEN 1 ELSE 0) + (IF stock \in supply THEN 1 ELSE 0)
        + (IF stock \in nps THEN 1 ELSE 0)
ScoredStocks(turn, supply, nps) ==
    { [name |-> stock, score |-> ScoreOf(stock, turn, supply, nps)] :
          stock \in turn \cup supply \cup nps }
ScoreStats(turn, supply, nps, results) ==
    [turn_count |-> Cardinality(turn), supply_count |-> Cardinality(supply),
     nps_count |-> Cardinality(nps),
     total |-> Cardinality(turn \cup supply \cup nps),
     score_3 |-> Cardinality({r \in results : r.score = 3}),
     score_2 |-> Cardinality({r \in results : r.score = 2}),
     score_1 |-> Cardinality({r \in results : r.score = 1})]
calculate_scores(turn, supply, nps) ==
    [result |-> ScoredStocks(turn, supply, nps),
     stats |-> ScoreStats(turn, supply, nps, ScoredStocks(turn, supply, nps))]

\* datetime.now() as a logical time: later than the stamp of the data shown
Stamp(cd) == IF cd.last_updated = None THEN 1 ELSE cd.last_updated[1] + 1
\* the locals of refresh_data after calculate_scores and now
Refreshed(t, now) ==
    [turn |-> t.turn, supply |-> t.supply, nps |-> t.nps,
     result |-> calculate_scores(t.turn, t.supply, t.nps).result,
     stats |-> calculate_scores(t.turn, t.supply, t.nps).stats,
     now |-> now]
\* the `with data_lock:` block of refresh_data that publishes the new data
Publish(cd, new) ==
    [cd EXCEPT !.turn = new.turn, !.supply = new.supply, !.nps = new.nps,
               !.result = new.result, !.stats = new.stats,
               !.last_updated = Some(new.now), !.status = "done"]
\* load_cache with a cache file an earlier refresh_data wrote
load_cache(cd, cache) == Publish(cd, cache)
CacheFiles ==
    { Refreshed(t, 0) : t \in { Tables({"X"}, {"X"}, {}), Tables({"Y"}, {}, {}) } }
\* the except clause of refresh_data
RefreshFailed(cd, e) ==
    IF cd.last_updated # None
    THEN [cd EXCEPT !.status = "done",
                    !.error_msg = <<"refresh failed (previous data kept)", e>>]
    ELSE [cd EXCEPT !.status = "error", !.error_msg = <<e>>]

MainThread == "main"
\* POST /api/refresh requests
RefreshRequests == {"r1", "r2"}
\* firings of the scheduler's daily_refresh job
CronRuns == {"c1"}
\* POST /api/backtest/run requests
BacktestRequests == {"b1", "b2"}
\* the threads that run refresh_data
Refreshers == {MainThread} \cup RefreshRequests \cup CronRuns
ThreadIds == Refreshers \cup BacktestRequests

\* positions inside refresh_data and inside run_backtest_task
RefreshPcs == {"fetch", "commit", "cache", "except"}
BacktestPcs == {"read", "collect", "commit", "log", "except"}

\* __main__: load_cache, else the first refresh_data, before the scheduler
\* and the server start
InitApp ==
    /\ portfolio = Portfolio(R(100), CostConfig(0, 0, 0))
    /\ last = NoCall
    /\ spent = Zero
    /\ received = Zero
    /\ clock = 0
    /\ clean = TRUE
    /\ price_data = EmptyDict
    /\ run = NoRun
    /\ StoreNew
    /\ backtest_state = NoBacktest
    /\ \/ /\ current_data = NoData
          /\ threads = [id \in ThreadIds |->
                           Thread(IF id = MainThread THEN "start" ELSE "new",
                                  None, None)]
       \/ /\ \E cache \in CacheFiles : current_data = load_cache(NoData, cache)
          /\ threads = [id \in ThreadIds |->
                           Thread(IF id = MainThread THEN "finished" ELSE "new",
                                  None, None)]

\* scheduler.start() and app.run() come after the main thread's load
Serving == threads[MainThread].pc = "finished"
At(id, pc) == threads[id].pc = pc
Goto(id, pc, data, e) ==
    threads' = [threads EXCEPT
                   ![id] = [Thread(pc, data, e) EXCEPT
                               !.before = threads[id].before]]
\* the fields of current_data a refresh replaces
Shown(cd) ==
    [turn |-> cd.turn, supply |-> cd.supply, nps |-> cd.nps,
     result |-> cd.result, stats |-> cd.stats,
     last_updated |-> cd.last_updated]

\* api_refresh, the `with data_lock:` block
ApiRefreshCheck(r) ==
    /\ Serving /\ At(r, "new")
    /\ Goto(r, IF current_data.status = "loading" THEN "already_loading"
               ELSE "passed", None, None)
    /\ UNCHANGED <<current_data, backtest_state, store, backtester>>
\* api_refresh, after the lock is released: Thread(target=refresh_data).start()
ApiRefreshStart(r) ==
    /\ At(r, "passed")
    /\ Goto(r, "start", None, None)
    /\ UNCHANGED <<current_data, backtest_state, store, backtester>>
\* the scheduler runs the daily_refresh job: refresh_data, called as it is
DailyRefresh(c) ==
    /\ Serving /\ At(c, "new")
    /\ Goto(c, "start", None, None)
    /\ UNCHANGED <<current_data, backtest_state, store, backtester>>

\* refresh_data, the first `with data_lock:` block
RefreshBegin(id) ==
    /\ At(id, "start")
    /\ current_data' = [current_data EXCEPT !.status = "loading",
                                            !.error_msg = <<>>]
    /\ threads' = [threads EXCEPT
                      ![id] = [Thread("fetch", None, None) EXCEPT
                                  !.before = Some(Shown(current_data))]]
    /\ UNCHANGED <<backtest_state, store, backtester>>
\* fetch_all_data returns or raises; three empty tables raise; then
\* calculate_scores and now
RefreshFetch(id) ==
    /\ At(id, "fetch")
    /\ \/ Goto(id, "except", None, Some("crawler"))
       \/ \E t \in FetchResults :
             IF t.turn = {} /\ t.supply = {} /\ t.nps = {}
             THEN Goto(id, "except", None, Some("no data from any source"))
             ELSE Goto(id, "commit", Some(Refreshed(t, Stamp(current_data))),
                       None)
    /\ UNCHANGED <<current_data, backtest_state, store, backtester>>
\* the second `with data_lock:` block
RefreshCommit(id) ==
    /\ At(id, "commit")
    /\ current_data' = Publish(current_data, threads[id].data[1])
    /\ Goto(id, "cache", None, None)
    /\ UNCHANGED <<backtest_state, store, backtester>>
\* the cache file is written, or open / json.dump raise
RefreshCache(id) ==
    /\ At(id, "cache")
    /\ \/ Goto(id, "finished", None, None)
       \/ Goto(id, "except", None, Some("cache"))
    /\ UNCHANGED <<current_data, backtest_state, store, backtester>>
\* an except clause that logs only
RefreshExcept_Silent(id) ==
    /\ At(id, "except")
    /\ Goto(id, "finished", None, None)
    /\ UNCHANGED <<current_data, backtest_state, store, backtester>>
\* the except clause
RefreshExcept(id) ==
    /\ At(id, "except")
    /\ current_data' = RefreshFailed(current_data, threads[id].e[1])
    /\ Goto(id, "finished", None, None)
    /\ UNCHANGED <<backtest_state, store, backtester>>

\* api_backtest_run, the `with bt_lock:` block
ApiBacktestCheck(b) ==
    /\ Serving /\ At(b, "new")
    /\ Goto(b, IF backtest_state.status = "loading" THEN "already_loading"
               ELSE "passed", None, None)
    /\ UNCHANGED <<current_data, backtest_state, store, backtester>>
\* api_backtest_run, after the lock is released: int() and float() of the
\* parameters raise, or Thread(target=run_backtest_task).start()
ApiBacktestStart(b) ==
    /\ At(b, "passed")
    /\ \/ Goto(b, "bad_request", None, None)
       \/ Goto(b, "start", None, None)
    /\ UNCHANGED <<current_data, backtest_state, store, backtester>>

\* run_backtest_task, the first `with bt_lock:` block
BacktestBegin(b) ==
    /\ At(b, "start")
    /\ backtest_state' = [backtest_state EXCEPT !.status = "loading",
                                                !.progress = "mapping tickers",
                                                !.error_msg = <<>>]
    /\ Goto(b, "read", None, None)
    /\ UNCHANGED <<current_data, store, backtester>>
\* the stocks with 종합점수 >= 2, read under data_lock
HighScore(cd) == { r.name : r \in { x \in cd.result : x.score >= 2 } }
BacktestRead(b) ==
    /\ At(b, "read")
    /\ IF HighScore(current_data) = {}
       THEN Goto(b, "except", None, Some("no stock with score >= 2"))
       ELSE Goto(b, "collect", Some(HighScore(current_data)), None)
    /\ UNCHANGED <<current_data, backtest_state, store, backtester>>
\* what get_results hands back: with its metrics, or {} after a run with no
\* snapshot
BacktestResults(stocks, metrics) == [stocks |-> stocks, metrics |-> metrics]
\* the ticker map, the price store and the engine return or raise
BacktestRun(b) ==
    /\ At(b, "collect")
    /\ backtest_state' = [backtest_state EXCEPT !.progress = "running backtest"]
    /\ \/ Goto(b, "except", None, Some("external"))
       \/ \E metrics \in BOOLEAN :
             Goto(b, "commit",
                  Some(BacktestResults(threads[b].data[1], metrics)), None)
    /\ UNCHANGED <<current_data, store, backtester>>
\* the last `with bt_lock:` block of the try body
BacktestCommit(b) ==
    /\ At(b, "commit")
    /\ backtest_state' = [backtest_state EXCEPT !.status = "done",
                                                !.results = threads[b].data,
                                                !.progress = "",
                                                !.engine = Some(b)]
    /\ Goto(b, "log", threads[b].data, None)
    /\ UNCHANGED <<current_data, store, backtester>>
\* logger.info reads results['metrics']: a KeyError when results is {}
BacktestLog(b) ==
    /\ At(b, "log")
    /\ IF threads[b].data[1].metrics
       THEN Goto(b, "finished", None, None)
       ELSE Goto(b, "except", None, Some("'metrics'"))
    /\ UNCHANGED <<current_data, backtest_state, store, backtester>>
\* the except clause
BacktestExcept(b) ==
    /\ At(b, "except")
    /\ backtest_state' = [backtest_state EXCEPT !.status = "error",
                                                !.error_msg = <<threads[b].e[1]>>,
                                                !.progress = ""]
    /\ Goto(b, "finished", None, None)
    /\ UNCHANGED <<current_data, store, backtester>>

\* a step of a thread inside refresh_data / run_backtest_task
RefreshStep(id) ==
    \/ RefreshBegin(id)
    \/ RefreshFetch(id)
    \/ RefreshCommit(id)
    \/ RefreshCache(id)
    \/ RefreshExcept(id)
BacktestStep(b) ==
    \/ BacktestBegin(b)
    \/ BacktestRead(b)
    \/ BacktestRun(b)
    \/ BacktestCommit(b)
    \/ BacktestLog(b)
    \/ BacktestExcept(b)

\* POST /api/refresh requests and the daily_refresh job
NextRefresh ==
    \/ \E r \in RefreshRequests : ApiRefreshCheck(r)
    \/ \E r \in RefreshRequests : ApiRefreshStart(r)
    \/ \E c \in CronRuns : DailyRefresh(c)
    \/ \E id \in Refreshers : RefreshStep(id)

SpecRefresh == InitApp /\ [][NextRefresh]_vars

\* POST /api/backtest/run requests, after the main thread's load
NextBacktest ==
    \/ RefreshStep(MainThread)
    \/ \E b \in BacktestRequests : ApiBacktestCheck(b)
    \/ \E b \in BacktestRequests : ApiBacktestStart(b)
    \/ \E b \in BacktestRequests : BacktestStep(b)

SpecBacktest == InitApp /\ [][NextBacktest]_vars

\* both kinds of request and the job, one request of each kind less
OneRefresh == CHOOSE r \in RefreshRequests : TRUE
OneBacktest == CHOOSE b \in BacktestRequests : TRUE
NextApp ==
    \/ ApiRefreshCheck(OneRefresh)
    \/ ApiRefreshStart(OneRefresh)
    \/ \E c \in CronRuns : DailyRefresh(c)
    \/ \E id \in Refreshers : RefreshStep(id)
    \/ ApiBacktestCheck(OneBacktest)
    \/ ApiBacktestStart(OneBacktest)
    \/ BacktestStep(OneBacktest)

SpecApp == InitApp /\ [][NextApp]_vars

\* every started thread is scheduled again and again, and each external
\* call returns or raises
FairApp ==
    /\ \A id \in Refreshers : WF_vars(RefreshStep(id))
    /\ WF_vars(BacktestStep(OneBacktest))
FairSpecApp == SpecApp /\ FairApp


(***************************************************************************)
(* C34: one backtest worker at a time.                                     *)
(***************************************************************************)
\* the worker thread a request started has not finished
BacktestAlive(b) == threads[b].pc \in {"start"} \cup BacktestPcs
BacktestWorkers == {b \in BacktestRequests : BacktestAlive(b)}
OneBacktestWorker == Cardinality(BacktestWorkers) <= 1
LoadingWhileBacktesting ==
    BacktestWorkers # {} => backtest_state.status = "loading"
\* C34: under any interleaving of POST /api/backtest/run requests at most
\* one backtest worker thread is alive, and backtest_state.status is
\* "loading" whenever one is alive
C34_OneBacktestWorker == OneBacktestWorker /\ LoadingWhileBacktesting


(***************************************************************************)
(* C35: one refresh_data execution at a time.                              *)
(***************************************************************************)
\* the thread is inside refresh_data, past its first block
Refreshing(id) == threads[id].pc \in RefreshPcs
RefreshRuns == {id \in Refreshers : Refreshing(id)}
OneRefreshRun == Cardinality(RefreshRuns) <= 1
LoadingWhileRefreshing == RefreshRuns # {} => current_data.status = "loading"
\* C35: under any interleaving of POST /api/refresh requests and the
\* daily_refresh job no two refresh_data executions overlap, and
\* current_data.status is "loading" whenever one is running
C35_OneRefresh == OneRefreshRun /\ LoadingWhileRefreshing


(***************************************************************************)
(* C36: a failed refresh keeps the previous data.                          *)
(***************************************************************************)
\* the step that ends a refresh_data execution which raised: its except
\* clause
RefreshFailedStep(id) ==
    threads[id].pc = "except" /\ threads'[id].pc = "finished"
\* what current_data showed when that execution started
Before(id) == threads[id].before[1]
KeptPrevious(id) ==
    /\ current_data'.status = "done"
    /\ current_data'.error_msg # <<>>
    /\ Shown(current_data') = Before(id)
FailedRefreshKeeps(id) ==
    IF Before(id).last_updated # None
    THEN KeptPrevious(id)
    ELSE current_data'.status = "error"
\* C36: when refresh_data raised, at any point, then after it: with a
\* previous load (last_updated set when it started) status is "done",
\* error_msg is not empty and turn, supply, nps, result, stats and
\* last_updated are what they were when it started; with none, status is
\* "error"
C36_FailedRefreshKeepsData ==
    [][\A id \in Refreshers : RefreshFailedStep(id) => FailedRefreshKeeps(id)]_vars


(***************************************************************************)
(* C37: every started worker leaves the loading state.                     *)
(***************************************************************************)
\* the thread was started on refresh_data / run_backtest_task and has not
\* returned from it
InRefresh(id) == threads[id].pc \in {"start"} \cup RefreshPcs
InBacktest(b) == threads[b].pc \in {"start"} \cup BacktestPcs
Returned37(id) == threads[id].pc = "finished"
\* the step in which an execution sets its final status: the block that
\* publishes, or the except clause
RefreshSets(id) ==
    \/ threads[id].pc = "commit" /\ threads'[id].pc = "cache"
    \/ threads[id].pc = "except" /\ threads'[id].pc = "finished"
BacktestSets(b) ==
    \/ threads[b].pc = "commit" /\ threads'[b].pc = "log"
    \/ threads[b].pc = "except" /\ threads'[b].pc = "finished"
\* an execution returns only after such a step
RefreshReturns(id) ==
    threads[id].pc # "finished" /\ threads'[id].pc = "finished"
        => threads[id].pc \in {"cache", "except"}
BacktestReturns(b) ==
    threads[b].pc # "finished" /\ threads'[b].pc = "finished"
        => threads[b].pc \in {"log", "except"}
SetsDoneOrError ==
    /\ \A id \in Refreshers :
          /\ RefreshSets(id) => current_data'.status \in {"done", "error"}
          /\ RefreshReturns(id)
    /\ \A b \in BacktestRequests :
          /\ BacktestSets(b) => backtest_state'.status \in {"done", "error"}
          /\ BacktestReturns(b)
NoRefreshRunning == \A id \in Refreshers : ~InRefresh(id)
NoBacktestRunning == \A b \in BacktestRequests : ~InBacktest(b)
NotLoadingWhenQuiet ==
    /\ NoRefreshRunning => current_data.status # "loading"
    /\ NoBacktestRunning => backtest_state.status # "loading"
EveryWorkerReturns ==
    /\ \A id \in Refreshers : InRefresh(id) ~> Returned37(id)
    /\ \A b \in BacktestRequests : InBacktest(b) ~> Returned37(b)
\* C37: when every started thread keeps being scheduled and each external
\* call returns or raises, every execution of refresh_data and of
\* run_backtest_task returns, having set its status to "done" or "error" in
\* its last locked block, and while no worker is running the status is
\* never "loading"
C37_WorkersLeaveLoading ==
    /\ EveryWorkerReturns
    /\ [][SetsDoneOrError]_vars
    /\ []NotLoadingWhenQuiet
\* a refresh the job started next to a request's, and a backtest, have all
\* returned, one of them through its except clause
C37_Witness ==
    /\ \A id \in {OneRefresh, OneBacktest} \cup CronRuns : Returned37(id)
    /\ backtest_state.status = "error"
    /\ current_data.error_msg # <<>>


(***************************************************************************)
(* C38: the holding flags and the peaks of the stop strategies.            *)
(***************************************************************************)
StopRun == run.strategy \in {"volatility_trailing_stop", "composite"}
\* the state a snapshot leaves: the day's loop body ran to its end
AtSnapshot == run.status \in {"running", "done"} /\ run.i >= 1
Flagged == {t \in DOMAIN run.holding : run.holding[t]}
\* the market price of the buy that opened t's position
EntryPrice(t) == trades[LastOpen(trades, t)].entry_price
HoldingAgrees == Flagged = Held(portfolio)
PeakCovers(t) ==
    /\ t \in DOMAIN run.peaks
    /\ LastOpen(trades, t) # 0
    /\ run.peaks[t] >= EntryPrice(t)
    /\ run.peaks[t] >= LastKnown(t, DayTraded)
\* C38: in run_volatility_trailing_stop and run_composite, at every
\* snapshot holding[t] is true exactly for the tickers with an open
\* position, and the peak of each of them is at least the market price it
\* was bought at and at least the price the last stop check saw (the day's
\* last known close)
C38_HoldingAgrees ==
    StopRun /\ AtSnapshot =>
        /\ HoldingAgrees
        /\ \A t \in Flagged : PeakCovers(t)
\* a ticker held at a snapshot whose peak lies above its entry price, next
\* to one that was stopped out
C38_Witness ==
    /\ StopRun /\ AtSnapshot
    /\ \E t \in Flagged : run.peaks[t] > EntryPrice(t)
    /\ \E t \in DOMAIN run.holding :
          ~run.holding[t] /\ run.sold_day[t] >= 0


(***************************************************************************)
(* C39: the open records and the positions.                                *)
(***************************************************************************)
LotRun ==
    run.strategy \in {"equal_weight", "rebalance", "volatility_trailing_stop",
                      "composite"}
OpenRecords(t) ==
    {k \in 1..Len(trades) : trades[k].ticker = t /\ trades[k].status = "open"}
RecordedOpen == {trades[k].ticker : k \in {j \in 1..Len(trades) : trades[j].status = "open"}}
OneOpenRecord(t) == Cardinality(OpenRecords(t)) <= 1
RecordMatches(t) ==
    \A k \in OpenRecords(t) : trades[k].shares = positions[t].shares
\* C39: in runs of equal-weight, periodic rebalance, volatility
\* trailing-stop and composite, at every snapshot each ticker has at most
\* one open TradeRecord, the tickers with an open record are the tickers
\* with a position, and the record's shares are the position's shares
C39_LotsMatchPositions ==
    LotRun /\ AtSnapshot =>
        /\ \A t \in RecordedOpen : OneOpenRecord(t)
        /\ RecordedOpen = Held(portfolio)
        /\ \A t \in Held(portfolio) : RecordMatches(t)
\* a rebalance that sold and bought again: a closed and an open record of
\* the same ticker
C39_Witness ==
    /\ LotRun /\ AtSnapshot
    /\ \E t \in Held(portfolio) :
          /\ OpenRecords(t) # {}
          /\ \E k \in 1..Len(trades) :
                trades[k].ticker = t /\ trades[k].status = "closed"


(***************************************************************************)
(* stock_db.py: StockDB.fetch_and_store.  Dates are day numbers: the       *)
(* 'YYYYMMDD' and 'YYYY-MM-DD' strings the code compares order as the      *)
(* days do.  A row is its key and its close.                               *)
(***************************************************************************)
StoreDays == 1..5
StoreTickers == {"A"}
\* what the exchange lists for a ticker: no trading on day 3, a close of 0
\* on day 2; rev is the adjustment factor the upstream applies on the day
\* of the call
Listed(rev) ==
    { Bar(1, 10 * rev), Bar(2, 0), Bar(4, 20 * rev), Bar(5, 30 * rev) }
Revisions == {1, 2}
\* krx_module.get_market_ohlcv_by_date(start, end, ticker)
get_market_ohlcv_by_date(start, end, rev) ==
    {r \in Listed(rev) : start <= r.date /\ r.date <= end}
\* the upstream handed to the call: none, one that raises, a working one
Upstreams == {"none", "raises", "ok"}

PriceRow(ticker, date, close) == [ticker |-> ticker, date |-> date, close |-> close]
RowsOf(table, ticker) == {r \in table : r.ticker = ticker}
get_stored_dates(table, ticker) == {r.date : r \in RowsOf(table, ticker)}
\* INSERT ... ON CONFLICT (ticker, date) DO UPDATE
save_prices(table, ticker, data) ==
    {r \in table : ~(r.ticker = ticker /\ r.date \in {d.date : d \in data})}
        \cup {PriceRow(ticker, d.date, d.close) : d \in data}
MaxDate(dates) == CHOOSE d \in dates : \A e \in dates : e <= d
MinDate(dates) == CHOOSE d \in dates : \A e \in dates : d <= e
\* the early return: the request lies inside the stored range
Sufficient(stored, start, end) ==
    stored # {} /\ end <= MaxDate(stored) /\ start >= MinDate(stored)
\* the loop over df.iterrows()
NewData(df, stored) == {r \in df : r.date \notin stored /\ r.close > 0}
Fetched(table, ret) == [table |-> table, ret |-> ret]
fetch_and_store(table, ticker, start, end, krx, rev) ==
    IF krx = "none" THEN Fetched(table, 0)
    ELSE IF Sufficient(get_stored_dates(table, ticker), start, end)
    THEN Fetched(table, 0)
    ELSE IF krx = "raises" THEN Fetched(table, 0)
    ELSE Fetched(save_prices(table, ticker,
                     NewData(get_market_ohlcv_by_date(start, end, rev),
                             get_stored_dates(table, ticker))),
                 Cardinality(NewData(get_market_ohlcv_by_date(start, end, rev),
                                     get_stored_dates(table, ticker))))

InitStore ==
    /\ portfolio = Portfolio(R(100), CostConfig(0, 0, 0))
    /\ last = NoCall
    /\ spent = Zero
    /\ received = Zero
    /\ clock = 0
    /\ clean = TRUE
    /\ price_data = EmptyDict
    /\ run = NoRun
    /\ ServerDown
    /\ daily_prices = NoRows
    /\ fetched = NoFetch

FetchAndStore(ticker, start, end, krx, rev) ==
    /\ daily_prices' = fetch_and_store(daily_prices, ticker, start, end, krx, rev).table
    /\ fetched' = [op |-> "fetch_and_store", ticker |-> ticker,
                   start |-> start, end |-> end, krx |-> krx,
                   upstream |-> get_market_ohlcv_by_date(start, end, rev),
                   before |-> daily_prices,
                   ret |-> fetch_and_store(daily_prices, ticker, start, end, krx, rev).ret]
    /\ UNCHANGED <<web, backtester>>

NextStore ==
    \E ticker \in StoreTickers, start \in StoreDays, end \in StoreDays :
       \E krx \in Upstreams, rev \in Revisions :
          start <= end /\ FetchAndStore(ticker, start, end, krx, rev)

SpecStore == InitStore /\ [][NextStore]_vars

(***************************************************************************)
(* C40: incremental collection.                                            *)
(***************************************************************************)
WorkingFetch == fetched.op = "fetch_and_store" /\ fetched.krx = "ok"
StoredNow == get_stored_dates(daily_prices, fetched.ticker)
HoldsUpstream ==
    \A r \in fetched.upstream : r.close > 0 => r.date \in StoredNow
KeepsRows == fetched.before \subseteq daily_prices
ReturnsNewDays ==
    fetched.ret = Cardinality(daily_prices) - Cardinality(fetched.before)
\* C40: after any earlier calls, a fetch_and_store(ticker, start, end)
\* with a working upstream leaves the store with every upstream trading
\* date of [start, end] whose close is > 0, leaves every row stored before
\* as it was, and returns the number of newly stored days
C40_IncrementalFetch ==
    WorkingFetch => HoldsUpstream /\ KeepsRows /\ ReturnsNewDays

=========================================================================
